---- MODULE Spec2Model ----
(***************************************************************************)
(* Conversation orchestration core of the financial-assistant chat page:   *)
(* directive parsing, the assistant message queue and its drain loop, the  *)
(* typing revealer, the PDF auto-open effect and the quick-reply gate.     *)
(***************************************************************************)
EXTENDS Integers, Sequences, FiniteSets, TLC

(***************************************************************************)
(* Bounds of the model.                                                    *)
(***************************************************************************)
MaxReplies == 2        \* agent replies handed to enqueueAssistantMessages
MaxSegments == 2       \* display segments of one reply
MaxRerenders == 1      \* re-renders of ChatPage caused by unrelated state
MaxImports == 1        \* confirmed file imports
MaxClaimCalls == 3     \* calls of claimPdfUiRequestExecution in the call log

(***************************************************************************)
(* JSON values as the agent returns them.  A string is the sequence of its *)
(* characters, an object a function from its field names to values.        *)
(***************************************************************************)
JNull == [k |-> "null"]
JUndefined == [k |-> "undefined"]
JStr(s) == [k |-> "str", v |-> s]
JNum(n) == [k |-> "num", v |-> n]
JArr(a) == [k |-> "arr", v |-> a]
JObj(f) == [k |-> "obj", v |-> f]

S_ui_request == <<"u","i","_","r","e","q","u","e","s","t">>
S_ui_action == <<"u","i","_","a","c","t","i","o","n">>
S_open_pdf_report == <<"o","p","e","n","_","p","d","f","_","r","e","p","o","r","t">>
S_import_file == <<"i","m","p","o","r","t","_","f","i","l","e">>
S_open_import_panel == <<"o","p","e","n","_","i","m","p","o","r","t","_","p","a","n","e","l">>
S_quick_replies == <<"q","u","i","c","k","_","r","e","p","l","i","e","s">>
S_quick_reply_yes_no == <<"q","u","i","c","k","_","r","e","p","l","y","_","y","e","s","_","n","o">>
S_progress == <<"p","r","o","g","r","e","s","s">>
S_url == <<"/","r">>
S_url_padded == <<" ","/","r"," ">>
S_blank == <<" ">>
S_empty == <<>>

\* value of record[f]: undefined when the field is absent
Field(value, f) == IF f \in DOMAIN value.v THEN value.v[f] ELSE JUndefined

\* !value || typeof value !== 'object'  (arrays are objects in JavaScript)
IsObjectLike(value) == value.k \in {"obj", "arr"}
FieldOf(value, f) == IF value.k = "obj" THEN Field(value, f) ELSE JUndefined

IsWhitespace(c) == c \in {" ", "\n", "\t"}

RECURSIVE TrimStart(_)
TrimStart(s) ==
    IF s = <<>> THEN s
    ELSE IF IsWhitespace(Head(s)) THEN TrimStart(Tail(s)) ELSE s

RECURSIVE TrimEnd(_)
TrimEnd(s) ==
    IF s = <<>> THEN s
    ELSE IF IsWhitespace(s[Len(s)]) THEN TrimEnd(SubSeq(s, 1, Len(s) - 1)) ELSE s

\* String.prototype.trim
Trim(s) == TrimEnd(TrimStart(s))

(***************************************************************************)
(* chatUiRequests: toPdfUiRequest and claimPdfUiRequestExecution.          *)
(***************************************************************************)
toPdfUiRequest(value) ==
    IF ~IsObjectLike(value) THEN JNull
    ELSE IF FieldOf(value, "type") # JStr(S_ui_request)
            \/ FieldOf(value, "name") # JStr(S_open_pdf_report) THEN JNull
    ELSE LET url == FieldOf(value, "url") IN
         IF url.k # "str" THEN JNull
         ELSE IF Trim(url.v) = <<>> THEN JNull
         ELSE JObj([type |-> JStr(S_ui_request),
                    name |-> JStr(S_open_pdf_report),
                    url |-> JStr(Trim(url.v))])

\* a variant that returns the request without recording the message id
claimWithoutRecording(executedMessageIds, messageId, toolResult) ==
    IF messageId \in executedMessageIds
    THEN [executed |-> executedMessageIds, result |-> JNull]
    ELSE [executed |-> executedMessageIds, result |-> toPdfUiRequest(toolResult)]

\* a variant that records the message id but never looks it up
claimWithoutLookup(executedMessageIds, messageId, toolResult) ==
    LET request == toPdfUiRequest(toolResult) IN
    IF request = JNull
    THEN [executed |-> executedMessageIds, result |-> JNull]
    ELSE [executed |-> executedMessageIds \cup {messageId}, result |-> request]

\* the guard set after the call and the value the call returns
claimPdfUiRequestExecution(executedMessageIds, messageId, toolResult) ==
    IF messageId \in executedMessageIds
    THEN [executed |-> executedMessageIds, result |-> JNull]
    ELSE LET request == toPdfUiRequest(toolResult) IN
         IF request = JNull
         THEN [executed |-> executedMessageIds, result |-> JNull]
         ELSE [executed |-> executedMessageIds \cup {messageId}, result |-> request]

(***************************************************************************)
(* chatUiRequests: parseQuickReplies and toQuickReplyYesNoUiAction.        *)
(***************************************************************************)
S_yes == <<"y","e","s">>
S_no == <<"n","o">>
S_oui == <<"o","u","i">>
S_non == <<"n","o","n">>
\* the one-character labels U+2705 (white heavy check mark) and U+274C (cross mark)
S_check == <<"U+2705">>
S_cross == <<"U+274C">>

IsQuickReplyOption(item) ==
    /\ item.k = "obj"
    /\ Field(item, "id").k = "str"
    /\ Field(item, "label").k = "str"
    /\ Field(item, "value").k = "str"

RECURSIVE QuickReplyOptions(_)
QuickReplyOptions(items) ==
    IF items = <<>> THEN <<>>
    ELSE LET item == Head(items) IN
         (IF IsQuickReplyOption(item)
          THEN <<JObj([id |-> Field(item, "id"), label |-> Field(item, "label"),
                       value |-> Field(item, "value")])>>
          ELSE <<>>) \o QuickReplyOptions(Tail(items))

parseQuickReplies(value) ==
    IF value.k # "arr" THEN JNull
    ELSE LET options == QuickReplyOptions(value.v) IN
         IF Len(options) = 0 THEN JNull
         ELSE JObj([type |-> JStr(S_ui_action), action |-> JStr(S_quick_replies),
                    options |-> JArr(options)])

YesNoOptions ==
    <<JObj([id |-> JStr(S_yes), label |-> JStr(S_check), value |-> JStr(S_oui)]),
      JObj([id |-> JStr(S_no), label |-> JStr(S_cross), value |-> JStr(S_non)])>>

toQuickReplyYesNoUiAction(value) ==
    IF ~IsObjectLike(value) THEN JNull
    ELSE IF FieldOf(value, "type") = JStr(S_ui_action)
            /\ FieldOf(value, "action") = JStr(S_quick_replies)
         THEN parseQuickReplies(FieldOf(value, "options"))
    ELSE IF FieldOf(value, "quick_replies").k = "arr"
         THEN parseQuickReplies(FieldOf(value, "quick_replies"))
    ELSE IF FieldOf(value, "type") = JStr(S_ui_action)
            /\ FieldOf(value, "action") = JStr(S_quick_reply_yes_no)
         THEN JObj([type |-> JStr(S_ui_action), action |-> JStr(S_quick_replies),
                    options |-> JArr(YesNoOptions)])
    ELSE JNull

(***************************************************************************)
(* chatUiRequests: normalizeAcceptedTypes, toOpenImportPanelUiAction and   *)
(* toLegacyImportUiRequest.                                                *)
(***************************************************************************)
S_csv == <<"c","s","v">>
S_pdf == <<"p","d","f">>
UpperCase == <<"A","B","C","D","E","F","G","H","I","J","K","L","M",
               "N","O","P","Q","R","S","T","U","V","W","X","Y","Z">>
LowerCase == <<"a","b","c","d","e","f","g","h","i","j","k","l","m",
               "n","o","p","q","r","s","t","u","v","w","x","y","z">>

ToLowerChar(c) ==
    IF \E i \in 1..Len(UpperCase) : UpperCase[i] = c
    THEN LowerCase[CHOOSE i \in 1..Len(UpperCase) : UpperCase[i] = c]
    ELSE c

\* String.prototype.toLowerCase
ToLowerCase(s) == [i \in 1..Len(s) |-> ToLowerChar(s[i])]

\* a variant that keeps the leading dot
NormalizeKeepsDot(s) == ToLowerCase(Trim(s))

\* item.trim().replace(/^\./, '').toLowerCase()
NormalizeType(s) ==
    LET trimmed == Trim(s)
        stripped == IF trimmed # <<>> /\ Head(trimmed) = "." THEN Tail(trimmed) ELSE trimmed
    IN ToLowerCase(stripped)

RECURSIVE NormalizedTypes(_)
NormalizedTypes(items) ==
    IF items = <<>> THEN <<>>
    ELSE LET item == Head(items) IN
         (IF item.k = "str" /\ NormalizeType(item.v) # <<>>
          THEN <<NormalizeType(item.v)>>
          ELSE <<>>) \o NormalizedTypes(Tail(items))

DefaultAcceptedTypes == <<S_csv, S_pdf>>

\* the normalized list, as a sequence of strings
normalizeAcceptedTypes(value) ==
    IF value.k # "arr" THEN DefaultAcceptedTypes
    ELSE LET normalized == NormalizedTypes(value.v) IN
         IF Len(normalized) > 0 THEN normalized ELSE DefaultAcceptedTypes

StringOrUndefined(value) == IF value.k = "str" THEN value ELSE JUndefined
JStrings(strings) == JArr([i \in 1..Len(strings) |-> JStr(strings[i])])

toOpenImportPanelUiAction(value) ==
    IF ~IsObjectLike(value) THEN JNull
    ELSE IF FieldOf(value, "type") # JStr(S_ui_action)
            \/ FieldOf(value, "action") # JStr(S_open_import_panel) THEN JNull
    ELSE JObj([type |-> JStr(S_ui_action),
               action |-> JStr(S_open_import_panel),
               bank_account_id |-> StringOrUndefined(FieldOf(value, "bank_account_id")),
               bank_account_name |-> StringOrUndefined(FieldOf(value, "bank_account_name")),
               accepted_types |-> JStrings(normalizeAcceptedTypes(FieldOf(value, "accepted_types")))])

\* the earlier toLegacyImportUiRequest, which asks for a bank_account_id
toLegacyImportUiRequestWithId(value) ==
    IF ~IsObjectLike(value) THEN JNull
    ELSE IF FieldOf(value, "type") # JStr(S_ui_request)
            \/ FieldOf(value, "name") # JStr(S_import_file) THEN JNull
    ELSE LET bankAccountId == FieldOf(value, "bank_account_id") IN
         IF bankAccountId.k # "str" THEN JNull
         ELSE IF Trim(bankAccountId.v) = <<>> THEN JNull
         ELSE JObj([type |-> JStr(S_ui_request),
                    name |-> JStr(S_import_file),
                    bank_account_id |-> bankAccountId,
                    bank_account_name |-> StringOrUndefined(FieldOf(value, "bank_account_name")),
                    accepted_types |-> JStrings(normalizeAcceptedTypes(FieldOf(value, "accepted_types")))])

toLegacyImportUiRequest(value) ==
    IF ~IsObjectLike(value) THEN JNull
    ELSE IF FieldOf(value, "type") # JStr(S_ui_request)
            \/ FieldOf(value, "name") # JStr(S_import_file) THEN JNull
    ELSE LET id == FieldOf(value, "bank_account_id")
             bankAccountId == IF id.k = "str" /\ Trim(id.v) # <<>>
                              THEN JStr(Trim(id.v)) ELSE JUndefined
         IN JObj([type |-> JStr(S_ui_request),
                  name |-> JStr(S_import_file),
                  bank_account_id |-> bankAccountId,
                  bank_account_name |-> StringOrUndefined(FieldOf(value, "bank_account_name")),
                  accepted_types |-> JStrings(normalizeAcceptedTypes(FieldOf(value, "accepted_types")))])

\* the strings of a JSON array of strings
Strings(value) == [i \in 1..Len(value.v) |-> value.v[i].v]

(***************************************************************************)
(* Directive payloads an agent reply may carry.                            *)
(***************************************************************************)
PdfDirective ==
    JObj([type |-> JStr(S_ui_request), name |-> JStr(S_open_pdf_report), url |-> JStr(S_url)])
PdfDirectivePadded ==
    JObj([type |-> JStr(S_ui_request), name |-> JStr(S_open_pdf_report), url |-> JStr(S_url_padded)])
PdfDirectiveBlankUrl ==
    JObj([type |-> JStr(S_ui_request), name |-> JStr(S_open_pdf_report), url |-> JStr(S_blank)])
PdfDirectiveNoUrl ==
    JObj([type |-> JStr(S_ui_request), name |-> JStr(S_open_pdf_report)])
PdfDirectiveNumberUrl ==
    JObj([type |-> JStr(S_ui_request), name |-> JStr(S_open_pdf_report), url |-> JNum(7)])
ImportRequestDirective ==
    JObj([type |-> JStr(S_ui_request), name |-> JStr(S_import_file),
          accepted_types |-> JArr(<<JStr(<<".","C","S","V">>)>>)])
ImportPanelDirective ==
    JObj([type |-> JStr(S_ui_action), action |-> JStr(S_open_import_panel)])

QuickRepliesDirective ==
    JObj([type |-> JStr(S_ui_action), action |-> JStr(S_quick_replies), options |-> JArr(YesNoOptions)])
QuickRepliesNoOption ==
    JObj([type |-> JStr(S_ui_action), action |-> JStr(S_quick_replies), options |-> JArr(<<JNum(1)>>)])
PlanObject == JObj([tool_name |-> JStr(S_progress)])

ClaimToolResults ==
    {JNull, JStr(S_url), JArr(<<>>), PdfDirective, PdfDirectivePadded, PdfDirectiveBlankUrl,
     PdfDirectiveNoUrl, PdfDirectiveNumberUrl, ImportRequestDirective}
ClaimMessageIds == {1, 2}

(***************************************************************************)
(* State of the chat page.                                                 *)
(***************************************************************************)
VARIABLES
    messages,                  \* useState<ChatMessage[]>
    assistantQueue,            \* assistantQueueRef.current
    isDrainingAssistantQueue,  \* isDrainingAssistantQueueRef.current
    drainLoops,                \* drainAssistantQueue runs suspended in their delay
    executedPdfMessageIds,     \* executedPdfMessageIdsRef.current
    revealedMessageIds,        \* revealedMessageIdsRef.current
    typingCursor,              \* useState(0)
    activeTypingMessageId,     \* the memoized id, 0 for null
    typing,                    \* per message id: the TypingText instance
    shouldShowQuickReplies,    \* as computed by the last render of ChatPage
    shouldBypassTyping,        \* shouldBypassTypingInTests()
    nextId,                    \* ids handed out so far (crypto.randomUUID)
    origin,                    \* message id -> reply and segment it was built from
    received,                  \* the replies received so far: toolResult, plan, flag found
    rerenders,                 \* unrelated re-renders so far
    pdfOpened,                 \* message id -> openPdfFromUrl calls of the scan
    typingDone,                \* message id -> onTypingDone calls
    claimLog,                  \* calls of claimPdfUiRequestExecution: <<id, toolResult, result>>
    isImportDialogOpen,        \* useState(false)
    selectedFile,              \* ImportDialog: useState<File | null>, 0 for null
    uploadMessageGuards,       \* uploadMessageGuardsRef.current
    uploads,                   \* the onConfirmImport tasks awaiting importReleves
    imports,                   \* imports confirmed so far
    composer,                  \* useState(''): message, the text of the composer
    isLoading,                 \* useState(false)
    error,                     \* useState<string | null>(null)
    toast,                     \* useState<ToastState>(null)
    agentCalls,                \* the calls of sendChatMessage so far
    requests,                  \* the calls of sendChatMessage still pending
    importCalls,               \* the calls of importReleves so far
    lastCall,                  \* the last run of a submit handler and what it found
    classified,                \* the last raw value given to the directive parsers, and their results
    sessionResetRequested,     \* agentApi: let sessionResetRequested = false
    resetCalls,                \* the calls of resetSession so far
    logouts,                   \* the runs of logoutWithSessionReset so far
    shouldAutoScroll,          \* shouldAutoScrollRef.current
    messagesElement,           \* messagesRef.current: scrollTop and scrollHeight
    scrolledBy,                \* what moved or measured the list last
    replyText,                 \* the last text given to splitAssistantReply
    replySegments,             \* what splitAssistantReply returned for it
    typingText,                \* one TypingText instance with its props, state and refs
    effectRuns,                \* the runs of its reveal effect: active and timerId of each closure
    pendingTimers              \* the timers of window.setTimeout(step, ...) not yet fired or cleared

vars ==<<messages, assistantQueue, isDrainingAssistantQueue, drainLoops,
          executedPdfMessageIds, revealedMessageIds, typingCursor, activeTypingMessageId,
          typing, shouldShowQuickReplies, shouldBypassTyping, nextId, origin, received,
          rerenders, pdfOpened, typingDone, claimLog, isImportDialogOpen, selectedFile,
          uploadMessageGuards, uploads, imports, composer, isLoading, error, toast,
          agentCalls, requests, importCalls, lastCall, classified, sessionResetRequested,
          resetCalls, logouts, shouldAutoScroll, messagesElement, scrolledBy,
          replyText, replySegments, typingText, effectRuns, pendingTimers>>

sessionVars == <<sessionResetRequested, resetCalls, logouts>>

scrollVars == <<shouldAutoScroll, messagesElement, scrolledBy>>

splitVars == <<replyText, replySegments>>

revealVars == <<typingText, effectRuns, pendingTimers>>

callVars == <<classified, sessionVars, scrollVars, splitVars, revealVars>>

chatVars == <<composer, isLoading, error, toast, agentCalls, requests, importCalls, lastCall>>

importVars == <<isImportDialogOpen, selectedFile, uploadMessageGuards, uploads, imports>>

MaxId == MaxReplies * MaxSegments + 2 * MaxImports
Ids == 1..MaxId
NoId == 0

NoError == "null"
NoToast == "null"
NoCall == [handler |-> "none", isLoading |-> FALSE, isImportRequired |-> FALSE, blank |-> FALSE,
           message |-> NoId, option |-> JNull]

\* the height of the message list on the screen, as in the test of the scrolling
ClientHeight == 300

NotClassified == [value |-> JUndefined, openImportPanel |-> JNull, legacyImport |-> JNull,
                  pdf |-> JNull, quickReply |-> JNull]

Unmounted == [mounted |-> FALSE, visibleLength |-> 0, completionNotified |-> FALSE, timer |-> FALSE]
\* the TypingText instance before its first render
NotMounted == [instance |-> Unmounted, length |-> 0, isActiveTyping |-> FALSE,
               revealed |-> FALSE, done |-> 0, progress |-> 0, renders |-> 0,
               timers |-> 0, lastStep |-> "none"]
NoOrigin == [reply |-> 0, index |-> 0, count |-> 0]

Init ==
    /\ messages = <<>>
    /\ assistantQueue = <<>>
    /\ isDrainingAssistantQueue = FALSE
    /\ drainLoops = 0
    /\ executedPdfMessageIds = {}
    /\ revealedMessageIds = {}
    /\ typingCursor = 0
    /\ activeTypingMessageId = NoId
    /\ typing = [id \in Ids |-> Unmounted]
    /\ shouldShowQuickReplies = FALSE
    /\ shouldBypassTyping \in BOOLEAN
    /\ nextId = 0
    /\ origin = [id \in Ids |-> NoOrigin]
    /\ received = <<>>
    /\ rerenders = 0
    /\ pdfOpened = [id \in Ids |-> 0]
    /\ typingDone = [id \in Ids |-> 0]
    /\ claimLog = <<>>
    /\ isImportDialogOpen = FALSE
    /\ selectedFile = 0
    /\ uploadMessageGuards = {}
    /\ uploads = {}
    /\ imports = 0
    /\ composer = <<>>
    /\ isLoading = FALSE
    /\ error = NoError
    /\ toast = NoToast
    /\ agentCalls = <<>>
    /\ requests = {}
    /\ importCalls = <<>>
    /\ lastCall = NoCall
    /\ classified = NotClassified
    /\ sessionResetRequested = FALSE
    /\ resetCalls = <<>>
    /\ logouts = <<>>
    /\ shouldAutoScroll = TRUE
    /\ messagesElement = [scrollTop |-> 0, scrollHeight |-> ClientHeight]
    /\ scrolledBy = "none"
    /\ replyText = <<>>
    /\ replySegments = <<>>
    /\ typingText = NotMounted
    /\ effectRuns = <<>>
    /\ pendingTimers = {}

(***************************************************************************)
(* Derived values of a render of ChatPage and MessageList.                 *)
(***************************************************************************)
Min(a, b) == IF a <= b THEN a ELSE b

AssistantIds(msgs) == {msgs[i].id : i \in {j \in 1..Len(msgs) : msgs[j].role = "assistant"}}
MessageOf(msgs, id) == msgs[CHOOSE i \in 1..Len(msgs) : msgs[i].id = id]

\* a variant that takes the newest assistant message not yet revealed
RECURSIVE NewestUnrevealed(_, _)
NewestUnrevealed(msgs, revealed) ==
    IF msgs = <<>> THEN NoId
    ELSE IF msgs[Len(msgs)].role = "assistant" /\ msgs[Len(msgs)].id \notin revealed
         THEN msgs[Len(msgs)].id
    ELSE NewestUnrevealed(SubSeq(msgs, 1, Len(msgs) - 1), revealed)

\* the oldest assistant message whose id is not in the revealed set, or null
RECURSIVE FirstUnrevealed(_, _)
FirstUnrevealed(msgs, revealed) ==
    IF msgs = <<>> THEN NoId
    ELSE IF Head(msgs).role = "assistant" /\ Head(msgs).id \notin revealed THEN Head(msgs).id
    ELSE FirstUnrevealed(Tail(msgs), revealed)

\* the newest assistant message, or null
RECURSIVE LatestAssistantIndex(_, _)
LatestAssistantIndex(msgs, index) ==
    IF index = 0 THEN 0
    ELSE IF msgs[index].role = "assistant" THEN index
    ELSE LatestAssistantIndex(msgs, index - 1)

quickReplyAction(msgs) ==
    LET index == LatestAssistantIndex(msgs, Len(msgs)) IN
    IF index = 0 THEN JNull ELSE toQuickReplyYesNoUiAction(msgs[index].toolResult)

\* a variant that looks at the directive alone
ShowQuickRepliesAtOnce(msgs, revealed, active) == quickReplyAction(msgs) # JNull

ShouldShowQuickReplies(msgs, revealed, active) ==
    LET index == LatestAssistantIndex(msgs, Len(msgs)) IN
    /\ quickReplyAction(msgs) # JNull
    /\ index # 0
    /\ msgs[index].id \in revealed
    /\ active = NoId

(***************************************************************************)
(* TypingText.  One commit of a rendered assistant message after a render  *)
(* of ChatPage: the reveal effect is cleaned up and run again (its         *)
(* callback dependencies are new functions on every render of ChatPage),   *)
(* then the completion effect runs with the rendered visibleLength, and    *)
(* once more if the reveal effect changed visibleLength.                   *)
(***************************************************************************)
\* a variant whose completionNotifiedRef is reset when the content changes
TypingCommitResetOnContent(message, instance, revealed, active, bypass) ==
    LET id == message.id
        length == message.content.length
        rendered == IF instance.mounted THEN instance.visibleLength
                    ELSE IF id \in revealed THEN length ELSE 0
        notified0 == instance.mounted /\ instance.completionNotified /\ rendered = length
        add == bypass /\ id \notin revealed
        fireReveal == add /\ ~notified0
        isRevealed == id \in revealed \/ add
        visible == IF bypass \/ id \in revealed THEN length
                   ELSE IF id # active THEN 0
                   ELSE rendered
        notified1 == notified0 \/ fireReveal
        fireDone == rendered >= length /\ isRevealed /\ ~notified1
        notified2 == notified1 \/ fireDone
        fireAgain == visible # rendered /\ visible >= length /\ isRevealed /\ ~notified2
    IN [instance |-> [mounted |-> TRUE, visibleLength |-> visible,
                      completionNotified |-> notified2 \/ fireAgain,
                      timer |-> ~bypass /\ id \notin revealed /\ id = active],
        add |-> add,
        fired |-> fireReveal \/ fireDone \/ fireAgain]

TypingCommit(message, instance, revealed, active, bypass) ==
    LET id == message.id
        length == message.content.length
        rendered == IF instance.mounted THEN instance.visibleLength
                    ELSE IF id \in revealed THEN length ELSE 0
        notified0 == instance.mounted /\ instance.completionNotified
        add == bypass /\ id \notin revealed
        fireReveal == add /\ ~notified0
        isRevealed == id \in revealed \/ add
        visible == IF bypass \/ id \in revealed THEN length
                   ELSE IF id # active THEN 0
                   ELSE rendered
        timer == ~bypass /\ id \notin revealed /\ id = active
        notified1 == notified0 \/ fireReveal
        fireDone == rendered >= length /\ isRevealed /\ ~notified1
        notified2 == notified1 \/ fireDone
        fireAgain == visible # rendered /\ visible >= length /\ isRevealed /\ ~notified2
    IN [instance |-> [mounted |-> TRUE, visibleLength |-> visible,
                      completionNotified |-> notified2 \/ fireAgain, timer |-> timer],
        add |-> add,
        fired |-> fireReveal \/ fireDone \/ fireAgain]

\* a variant of MessageList that renders every assistant message
IsRenderedAlways(msgs, id, revealed, active) == id \in AssistantIds(msgs)

\* MessageList renders an assistant message only if it is revealed or active
IsRendered(msgs, id, revealed, active) ==
    /\ id \in AssistantIds(msgs)
    /\ (id \in revealed \/ id = active)

(***************************************************************************)
(* A render of ChatPage with its effects, repeated while onTypingDone      *)
(* bumps the typing cursor.  view = [typing, revealed, cursor, active,     *)
(* done]; memoDirty: messages or typingCursor changed since the last       *)
(* render, so the memoized activeTypingMessageId is computed again.        *)
(***************************************************************************)
\* the commit of every TypingText instance for one render
CommitAll(msgs, view, active, bypass) ==
    [id \in Ids |->
        IF IsRendered(msgs, id, view.revealed, active)
        THEN TypingCommit(MessageOf(msgs, id), view.typing[id], view.revealed, active, bypass)
        ELSE [instance |-> Unmounted, add |-> FALSE, fired |-> FALSE]]

\* the view after the commit; every onTypingDone call bumps the typing cursor
Committed(view, active, commit) ==
    [typing |-> [id \in Ids |-> commit[id].instance],
     revealed |-> view.revealed \cup {id \in Ids : commit[id].add},
     cursor |-> view.cursor + Cardinality({id \in Ids : commit[id].fired}),
     active |-> active,
     done |-> [id \in Ids |-> view.done[id] + (IF commit[id].fired THEN 1 ELSE 0)]]

RECURSIVE RenderChatPage(_, _, _, _)
RECURSIVE RenderAgain(_, _, _, _)
RenderAgain(msgs, view, next, bypass) ==
    IF next.cursor = view.cursor THEN next ELSE RenderChatPage(msgs, next, TRUE, bypass)

\* the one element of a singleton set: binds a value that is computed once
Only(singleton) == CHOOSE element \in singleton : TRUE

RenderChatPage(msgs, view, memoDirty, bypass) ==
    LET active == IF memoDirty THEN FirstUnrevealed(msgs, view.revealed) ELSE view.active
    IN Only({RenderAgain(msgs, view, next, bypass) :
                next \in {Committed(view, active, CommitAll(msgs, view, active, bypass))}})

View == [typing |-> typing, revealed |-> revealedMessageIds, cursor |-> typingCursor,
         active |-> activeTypingMessageId, done |-> typingDone]

\* the view variables after the renders that follow a state change
Rendered(msgs, view, memoDirty) ==
    \E next \in {RenderChatPage(msgs, view, memoDirty, shouldBypassTyping)} :
    /\ typing' = next.typing
    /\ revealedMessageIds' = next.revealed
    /\ typingCursor' = next.cursor
    /\ activeTypingMessageId' = next.active
    /\ typingDone' = next.done
    /\ shouldShowQuickReplies' = ShouldShowQuickReplies(msgs, next.revealed, next.active)

(***************************************************************************)
(* The PDF auto-open effect (dependency: messages).                        *)
(***************************************************************************)
RECURSIVE PdfScanLoop(_, _, _)
PdfScanLoop(pending, executed, opened) ==
    IF pending = <<>> THEN [executed |-> executed, opened |-> opened]
    ELSE LET chatMessage == Head(pending)
             claim == claimPdfUiRequestExecution(executed, chatMessage.id, chatMessage.toolResult)
         IN IF claim.result = JNull
            THEN PdfScanLoop(Tail(pending), claim.executed, opened)
            ELSE PdfScanLoop(Tail(pending), claim.executed,
                             [opened EXCEPT ![chatMessage.id] = @ + 1])

PendingPdfMessages(msgs, executed) ==
    SelectSeq(msgs, LAMBDA chatMessage :
        /\ chatMessage.role = "assistant"
        /\ chatMessage.id \notin executed
        /\ toPdfUiRequest(chatMessage.toolResult) # JNull)

PdfAutoOpenEffect(msgs, executed, opened) ==
    PdfScanLoop(PendingPdfMessages(msgs, executed), executed, opened)

PdfEffectRuns(msgs) ==
    \E scan \in {PdfAutoOpenEffect(msgs, executedPdfMessageIds, pdfOpened)} :
    /\ executedPdfMessageIds' = scan.executed
    /\ pdfOpened' = scan.opened

(***************************************************************************)
(* The assistant message queue.  drain = [queue, messages, draining,       *)
(* loops]: the queue, the message list, the draining flag and the number   *)
(* of drainAssistantQueue runs suspended in their inter-segment delay.     *)
(***************************************************************************)
AssistantMessage(queued) ==
    [id |-> queued.id, role |-> "assistant", content |-> queued.content,
     toolResult |-> queued.toolResult, plan |-> queued.plan,
     debugPayload |-> queued.debugPayload]

\* a variant of the loop that pops the newest entry instead of the oldest
RECURSIVE DrainLoopNewestFirst(_)
DrainLoopNewestFirst(drain) ==
    IF Len(drain.queue) > 0
    THEN LET queued == drain.queue[Len(drain.queue)]
             popped == [drain EXCEPT !.queue = SubSeq(drain.queue, 1, Len(drain.queue) - 1),
                                     !.messages = Append(drain.messages, AssistantMessage(queued))]
         IN IF Len(popped.queue) > 0
            THEN [popped EXCEPT !.loops = @ + 1]
            ELSE DrainLoopNewestFirst(popped)
    ELSE [drain EXCEPT !.draining = FALSE]

\* a variant of the loop that returns after one segment instead of waiting
DrainLoopOneSegment(drain) ==
    IF Len(drain.queue) > 0
    THEN [drain EXCEPT !.queue = Tail(drain.queue),
                       !.messages = Append(drain.messages, AssistantMessage(Head(drain.queue))),
                       !.draining = FALSE]
    ELSE [drain EXCEPT !.draining = FALSE]

\* the while loop, from its head to the next await or to the end of the run
RECURSIVE DrainLoop(_)
DrainLoop(drain) ==
    IF Len(drain.queue) > 0
    THEN LET queued == Head(drain.queue)
             popped == [drain EXCEPT !.queue = Tail(drain.queue),
                                     !.messages = Append(drain.messages, AssistantMessage(queued))]
         IN IF Len(popped.queue) > 0
            THEN [popped EXCEPT !.loops = @ + 1]
            ELSE DrainLoop(popped)
    ELSE [drain EXCEPT !.draining = FALSE]

\* a variant without the re-entry guard
drainWithoutGuard(drain) == DrainLoop([drain EXCEPT !.draining = TRUE])

drainAssistantQueue(drain) ==
    IF drain.draining THEN drain
    ELSE DrainLoop([drain EXCEPT !.draining = TRUE])

\* a variant that attaches the directive to every segment
QueuedSegmentWithDirective(segments, index, id, toolResult, plan, debugPayload) ==
    [id |-> id, content |-> segments[index], toolResult |-> toolResult, plan |-> plan,
     debugPayload |-> debugPayload]

\* the entry pushed for segment index of segments
QueuedSegment(segments, index, id, toolResult, plan, debugPayload) ==
    LET isLast == index = Len(segments) IN
    [id |-> id, content |-> segments[index],
     toolResult |-> IF isLast THEN toolResult ELSE JNull,
     plan |-> IF isLast THEN plan ELSE JNull,
     debugPayload |-> IF isLast THEN debugPayload ELSE JNull]

enqueueAssistantMessages(drain, segments, firstId, toolResult, plan, debugPayload) ==
    LET pushed == [index \in 1..Len(segments) |->
                     QueuedSegment(segments, index, firstId + index - 1, toolResult, plan,
                                   debugPayload)]
    IN drainAssistantQueue([drain EXCEPT !.queue = @ \o pushed])

Drain == [queue |-> assistantQueue, messages |-> messages,
          draining |-> isDrainingAssistantQueue, loops |-> drainLoops]

Drained(drain) ==
    /\ assistantQueue' = drain.queue
    /\ messages' = drain.messages
    /\ isDrainingAssistantQueue' = drain.draining
    /\ drainLoops' = drain.loops

(***************************************************************************)
(* Inputs: the replies of the agent.                                       *)
(***************************************************************************)
ShortLength == 3
LongLength == 126
ShortContents == {[text |-> "reply", length |-> ShortLength]}
LongContents == {[text |-> "reply", length |-> LongLength]}
SegmentsOf(contents) == UNION {[1..n -> contents] : n \in 0..MaxSegments}
ReplySegments == SegmentsOf(ShortContents)
ReplyDirectives ==
    {[toolResult |-> JNull, plan |-> JNull],
     [toolResult |-> PdfDirective, plan |-> PlanObject],
     [toolResult |-> PdfDirectiveBlankUrl, plan |-> JNull],
     [toolResult |-> QuickRepliesDirective, plan |-> JNull],
     [toolResult |-> ImportRequestDirective, plan |-> JNull]}
ResponsePayload(reply) == JObj([reply |-> JNum(reply)])

(***************************************************************************)
(* Operations.                                                             *)
(***************************************************************************)
\* the reply of sendChatMessage is split and enqueued: splitAssistantReply and
\* enqueueAssistantMessages in the try block of a caller of sendChatMessage
ReplyEnqueued(segments, toolResult, plan) ==
    /\ Len(received) < MaxReplies
    /\ received' = Append(received, [toolResult |-> toolResult, plan |-> plan,
                                     draining |-> isDrainingAssistantQueue])
    /\ nextId' = nextId + Len(segments)
    /\ origin' = [id \in Ids |->
                    IF id > nextId /\ id <= nextId + Len(segments)
                    THEN [reply |-> Len(received) + 1, index |-> id - nextId, count |-> Len(segments)]
                    ELSE origin[id]]
    /\ LET drain == enqueueAssistantMessages(Drain, segments, nextId + 1, toolResult, plan,
                                             ResponsePayload(Len(received) + 1))
       IN /\ Drained(drain)
          /\ Rendered(drain.messages, View, drain.messages # messages)
          /\ IF drain.messages # messages
             THEN PdfEffectRuns(drain.messages)
             ELSE UNCHANGED <<executedPdfMessageIds, pdfOpened>>

\* the continuation of handleSubmit, submitQuickReply and startConversation
\* after sendChatMessage has resolved; the loading flag, which the finally
\* block clears, is followed by RequestResolves
ReceiveReply(segments, toolResult, plan) ==
    /\ ReplyEnqueued(segments, toolResult, plan)
    /\ UNCHANGED <<shouldBypassTyping, rerenders, claimLog, callVars, importVars, chatVars>>

\* the inter-segment delay of a suspended drainAssistantQueue run elapses
DrainTimer ==
    /\ drainLoops > 0
    /\ \E drain \in {DrainLoop([Drain EXCEPT !.loops = @ - 1])} :
          /\ Drained(drain)
          /\ Rendered(drain.messages, View, TRUE)
          /\ PdfEffectRuns(drain.messages)
    /\ UNCHANGED <<shouldBypassTyping, nextId, origin, received, rerenders, claimLog, callVars, importVars, chatVars>>

\* a variant of the updater that adds the increment to nothing
StepLengthFromZero(length, previous) ==
    Min(length, IF previous > 120 THEN 4 ELSE 2)

\* the updater of step(): the next visible length
StepLength(length, previous) ==
    LET increment == IF previous > 120 THEN 4 ELSE 2
    IN Min(length, previous + increment)

\* the pending timer of the reveal effect of message id fires: step()
TypingStep(id) ==
    /\ typing[id].timer
    /\ LET length == MessageOf(messages, id).content.length
           previous == typing[id].visibleLength
           next == StepLength(length, previous)
           complete == next >= length
           visible == IF complete THEN length ELSE next
           revealed == IF complete THEN revealedMessageIds \cup {id} ELSE revealedMessageIds
           \* TypingText renders again when visibleLength changed: completion effect
           fired == /\ visible # previous
                    /\ visible >= length
                    /\ id \in revealed
                    /\ ~typing[id].completionNotified
           stepped == [typing |-> [typing EXCEPT ![id] =
                                     [@ EXCEPT !.visibleLength = visible,
                                               !.timer = ~complete,
                                               !.completionNotified = @ \/ fired]],
                       revealed |-> revealed,
                       cursor |-> typingCursor + (IF fired THEN 1 ELSE 0),
                       active |-> activeTypingMessageId,
                       done |-> [typingDone EXCEPT ![id] = @ + (IF fired THEN 1 ELSE 0)]]
       IN IF fired
          THEN Rendered(messages, stepped, TRUE)
          ELSE /\ typing' = stepped.typing
               /\ revealedMessageIds' = stepped.revealed
               /\ UNCHANGED <<typingCursor, activeTypingMessageId, typingDone,
                              shouldShowQuickReplies>>
    /\ UNCHANGED <<messages, assistantQueue, isDrainingAssistantQueue, drainLoops,
                   executedPdfMessageIds, shouldBypassTyping, nextId, origin, received,
                   rerenders, pdfOpened, claimLog, callVars, importVars, chatVars>>

\* ChatPage renders again for a state change that touches neither messages
\* nor typingCursor (toast, loading flag, composer text, ...)
Rerender ==
    /\ rerenders < MaxRerenders
    /\ rerenders' = rerenders + 1
    /\ Rendered(messages, View, FALSE)
    /\ UNCHANGED <<messages, assistantQueue, isDrainingAssistantQueue, drainLoops,
                   executedPdfMessageIds, shouldBypassTyping, nextId, origin, received,
                   pdfOpened, claimLog, callVars, importVars, chatVars>>

\* the PDF auto-open effect fires again without a change of messages
PdfEffectAgain ==
    /\ rerenders < MaxRerenders
    /\ rerenders' = rerenders + 1
    /\ PdfEffectRuns(messages)
    /\ UNCHANGED <<messages, assistantQueue, isDrainingAssistantQueue, drainLoops,
                   revealedMessageIds, typingCursor, activeTypingMessageId, typing,
                   shouldShowQuickReplies, shouldBypassTyping, nextId, origin, received,
                   typingDone, claimLog, callVars, importVars, chatVars>>

(***************************************************************************)
(* The import flow: the pending intent, the dialog and onConfirmImport.    *)
(***************************************************************************)
NoIntent == [messageId |-> NoId, acceptedTypes |-> DefaultAcceptedTypes, source |-> "none"]

\* the ImportIntent MessageBubble and findPendingImportIntent build for one message
importIntent(message) ==
    LET action == toOpenImportPanelUiAction(message.toolResult)
        legacyRequest == toLegacyImportUiRequest(message.toolResult)
    IN IF action # JNull
       THEN [messageId |-> message.id, acceptedTypes |-> Strings(Field(action, "accepted_types")),
             source |-> "ui_action"]
       ELSE IF legacyRequest # JNull
       THEN [messageId |-> message.id,
             acceptedTypes |-> Strings(Field(legacyRequest, "accepted_types")),
             source |-> "ui_request"]
       ELSE NoIntent

RECURSIVE findPendingImportIntentFrom(_, _)
findPendingImportIntentFrom(msgs, index) ==
    IF index = 0 THEN NoIntent
    ELSE IF msgs[index].role = "assistant" /\ importIntent(msgs[index]) # NoIntent
    THEN importIntent(msgs[index])
    ELSE findPendingImportIntentFrom(msgs, index - 1)

findPendingImportIntent(msgs) == findPendingImportIntentFrom(msgs, Len(msgs))

\* the files the user may pick: name, size, lastModified
Files == <<[name |-> <<"r",".","c","s","v">>, size |-> 10, lastModified |-> 1],
           [name |-> <<"x",".","P","D","F">>, size |-> 20, lastModified |-> 2]>>
UploadMessageId(file) == MaxId + file

\* selectedFile.name.split('.').pop()?.toLowerCase()
RECURSIVE LastDot(_, _)
LastDot(name, index) ==
    IF index = 0 THEN 0
    ELSE IF name[index] = "." THEN index ELSE LastDot(name, index - 1)
\* a variant that keeps the case of the extension
ExtensionAsWritten(name) == SubSeq(name, LastDot(name, Len(name)) + 1, Len(name))

Extension(name) == ToLowerCase(SubSeq(name, LastDot(name, Len(name)) + 1, Len(name)))

Includes(strings, string) == \E i \in 1..Len(strings) : strings[i] = string

ProgressContent == [text |-> "Import en cours", length |-> 16]
UploadContent == [text |-> "Fichier envoye", length |-> 22]
SuccessContent == [text |-> "Parfait", length |-> 64]
ClarificationContents == {[text |-> "clarification", length |-> 4],
                          [text |-> "clarification", length |-> 20]}

\* computeProgressStepLabel
computeProgressStepLabel(percent) ==
    IF percent < 20 THEN 1
    ELSE IF percent < 35 THEN 2
    ELSE IF percent < 60 THEN 3
    ELSE IF percent < 80 THEN 4
    ELSE 5

buildProgressToolResult(percent) ==
    JObj([type |-> JStr(S_ui_action), action |-> JStr(S_progress), percent |-> JNum(percent),
          step_label |-> JNum(computeProgressStepLabel(percent))])

updateProgressMessage(msgs, progressId, progressToolResult) ==
    [i \in 1..Len(msgs) |->
        IF msgs[i].id = progressId
        THEN [msgs[i] EXCEPT !.content = ProgressContent, !.toolResult = progressToolResult]
        ELSE msgs[i]]

\* a variant that leaves the progress directive on the message
ReplaceKeepsDirective(msgs, progressId, assistantMessage, debugPayload) ==
    [i \in 1..Len(msgs) |->
        IF msgs[i].id = progressId
        THEN [msgs[i] EXCEPT !.content = assistantMessage, !.debugPayload = debugPayload]
        ELSE msgs[i]]

replaceProgressWithAssistantMessage(msgs, progressId, assistantMessage, debugPayload) ==
    [i \in 1..Len(msgs) |->
        IF msgs[i].id = progressId
        THEN [msgs[i] EXCEPT !.content = assistantMessage, !.toolResult = JNull,
                             !.debugPayload = debugPayload]
        ELSE msgs[i]]

\* a variant that clears the directive of every message
ClearEveryToolResult(msgs, messageId) ==
    [i \in 1..Len(msgs) |-> [msgs[i] EXCEPT !.toolResult = JNull]]

clearToolResult(msgs, messageId) ==
    [i \in 1..Len(msgs) |->
        IF msgs[i].id = messageId THEN [msgs[i] EXCEPT !.toolResult = JNull] ELSE msgs[i]]

\* the directive onImportNow writes back on the clicked message
RestoredDirective(intent) ==
    IF intent.source = "ui_action"
    THEN JObj([type |-> JStr(S_ui_action), action |-> JStr(S_open_import_panel),
               accepted_types |-> JStrings(intent.acceptedTypes)])
    ELSE JObj([type |-> JStr(S_ui_request), name |-> JStr(S_import_file),
               accepted_types |-> JStrings(intent.acceptedTypes)])

\* the user clicks "Importer maintenant" on the rendered message id: onImportNow
ImportNowOpens(id) ==
    /\ IsRendered(messages, id, revealedMessageIds, activeTypingMessageId)
    /\ importIntent(MessageOf(messages, id)) # NoIntent
    /\ ~isImportDialogOpen
    /\ isImportDialogOpen' = TRUE
    /\ LET intent == importIntent(MessageOf(messages, id))
           rewritten == [i \in 1..Len(messages) |->
                           IF messages[i].id = id
                           THEN [messages[i] EXCEPT !.toolResult = RestoredDirective(intent)]
                           ELSE messages[i]]
       IN IF intent.messageId # findPendingImportIntent(messages).messageId
          THEN /\ messages' = rewritten
               /\ Rendered(rewritten, View, TRUE)
               /\ PdfEffectRuns(rewritten)
          ELSE /\ Rendered(messages, View, FALSE)
               /\ UNCHANGED <<messages, executedPdfMessageIds, pdfOpened>>
    /\ UNCHANGED <<assistantQueue, isDrainingAssistantQueue, drainLoops, shouldBypassTyping,
                   nextId, origin, received, rerenders, claimLog, callVars, selectedFile,
                   uploadMessageGuards, uploads, imports>>

OnImportNow(id) == ImportNowOpens(id) /\ UNCHANGED chatVars

\* the user picks a file in the open dialog: handleFileChange
HandleFileChange(file) ==
    /\ isImportDialogOpen
    /\ selectedFile # file
    /\ selectedFile' = file
    /\ UNCHANGED <<messages, assistantQueue, isDrainingAssistantQueue, drainLoops,
                   executedPdfMessageIds, revealedMessageIds, typingCursor,
                   activeTypingMessageId, typing, shouldShowQuickReplies, shouldBypassTyping,
                   nextId, origin, received, rerenders, pdfOpened, typingDone, claimLog, callVars,
                   isImportDialogOpen, uploadMessageGuards, uploads, imports, chatVars>>

\* a variant that appends the progress message first
ProgressBeforeUpload(msgs, file, progressId, guards) ==
    Append(msgs, [id |-> progressId, role |-> "assistant", content |-> ProgressContent,
                  toolResult |-> buildProgressToolResult(5), plan |-> JUndefined,
                  debugPayload |-> JUndefined])
    \o (IF file \notin guards
        THEN <<[id |-> UploadMessageId(file), role |-> "user", content |-> UploadContent,
                toolResult |-> JUndefined, plan |-> JUndefined,
                debugPayload |-> JUndefined]>>
        ELSE <<>>)

\* a variant that does not look at the guard set
ConfirmedWithoutGuard(msgs, file, progressId, guards) ==
    msgs \o <<[id |-> UploadMessageId(file), role |-> "user", content |-> UploadContent,
               toolResult |-> JUndefined, plan |-> JUndefined, debugPayload |-> JUndefined],
              [id |-> progressId, role |-> "assistant", content |-> ProgressContent,
               toolResult |-> buildProgressToolResult(5), plan |-> JUndefined,
               debugPayload |-> JUndefined]>>

\* the messages onConfirmImport appends before its first await
ConfirmedMessages(msgs, file, progressId, guards) ==
    (IF file \notin guards
     THEN Append(msgs, [id |-> UploadMessageId(file), role |-> "user", content |-> UploadContent,
                        toolResult |-> JUndefined, plan |-> JUndefined,
                        debugPayload |-> JUndefined])
     ELSE msgs)
    \o <<[id |-> progressId, role |-> "assistant", content |-> ProgressContent,
          toolResult |-> buildProgressToolResult(5), plan |-> JUndefined,
          debugPayload |-> JUndefined]>>

\* the user clicks "Importer": handleImport, and onConfirmImport up to its first await
HandleImport ==
    /\ isImportDialogOpen
    /\ selectedFile # 0
    /\ LET intent == findPendingImportIntent(messages)
           extension == Extension(Files[selectedFile].name)
       IN IF extension = <<>> \/ ~Includes(intent.acceptedTypes, extension)
          THEN \* onImportError: a toast, the dialog stays open
               /\ Rendered(messages, View, FALSE)
               /\ UNCHANGED <<messages, executedPdfMessageIds, pdfOpened, nextId, importVars>>
          ELSE /\ imports < MaxImports
               /\ imports' = imports + 1
               /\ nextId' = nextId + 1
               /\ uploadMessageGuards' = uploadMessageGuards \cup {selectedFile}
               /\ uploads' = uploads \cup {[progressId |-> nextId + 1,
                                            messageId |-> intent.messageId,
                                            currentPercent |-> 5, interval |-> TRUE]}
               /\ selectedFile' = 0
               /\ isImportDialogOpen' = FALSE
               /\ LET appended == ConfirmedMessages(messages, selectedFile, nextId + 1,
                                                    uploadMessageGuards)
                  IN /\ messages' = appended
                     /\ Rendered(appended, View, TRUE)
                     /\ PdfEffectRuns(appended)
    /\ UNCHANGED <<assistantQueue, isDrainingAssistantQueue, drainLoops, shouldBypassTyping,
                   origin, received, rerenders, claimLog, callVars, chatVars>>

\* importReleves resolves or rejects for the upload task: the rest of onConfirmImport
\* up to its next await
ImportSettles(upload, outcome, clarification) ==
    /\ upload \in uploads
    /\ uploads' = uploads \ {upload}
    /\ LET settled ==
             IF outcome = "clarification"
             THEN replaceProgressWithAssistantMessage(messages, upload.progressId,
                                                      clarification, JNull)
             ELSE IF outcome = "success"
             THEN LET done == updateProgressMessage(messages, upload.progressId,
                                                    buildProgressToolResult(100))
                      replaced == replaceProgressWithAssistantMessage(
                                      done, upload.progressId, SuccessContent,
                                      JObj([imported_count |-> JNum(1)]))
                  IN IF upload.messageId # NoId
                     THEN clearToolResult(replaced, upload.messageId)
                     ELSE replaced
             ELSE messages
       IN /\ messages' = settled
          /\ Rendered(settled, View, outcome # "error")
          /\ IF outcome # "error"
             THEN PdfEffectRuns(settled)
             ELSE UNCHANGED <<executedPdfMessageIds, pdfOpened>>
    /\ UNCHANGED <<assistantQueue, isDrainingAssistantQueue, drainLoops, shouldBypassTyping,
                   nextId, origin, received, rerenders, claimLog, callVars, isImportDialogOpen,
                   selectedFile, uploadMessageGuards, imports, chatVars>>

ImportOutcomes == {"clarification", "success", "error"}

Next ==
    \/ \E segments \in ReplySegments, directive \in ReplyDirectives :
          ReceiveReply(segments, directive.toolResult, directive.plan)
    \/ DrainTimer
    \/ \E id \in Ids : TypingStep(id)
    \/ Rerender
    \/ PdfEffectAgain
    \/ \E id \in Ids : OnImportNow(id)
    \/ \E file \in 1..Len(Files) : HandleFileChange(file)
    \/ HandleImport
    \/ \E upload \in uploads, outcome \in ImportOutcomes, clarification \in ClarificationContents :
          ImportSettles(upload, outcome, clarification)

Spec == Init /\ [][Next]_vars

(***************************************************************************)
(* claimPdfUiRequestExecution on its own: any sequence of calls on one     *)
(* guard set, which starts as the empty Set the page and the tests create. *)
(***************************************************************************)
ClaimCall(messageId, toolResult) ==
    /\ Len(claimLog) < MaxClaimCalls
    /\ \E claim \in {claimPdfUiRequestExecution(executedPdfMessageIds, messageId, toolResult)} :
          /\ executedPdfMessageIds' = claim.executed
          /\ claimLog' = Append(claimLog, [messageId |-> messageId, toolResult |-> toolResult,
                                           result |-> claim.result])
    /\ UNCHANGED <<messages, assistantQueue, isDrainingAssistantQueue, drainLoops,
                   revealedMessageIds, typingCursor, activeTypingMessageId, typing,
                   shouldShowQuickReplies, shouldBypassTyping, nextId, origin, received,
                   rerenders, pdfOpened, typingDone, importVars, chatVars, callVars>>

NextClaim ==
    \E messageId \in ClaimMessageIds, toolResult \in ClaimToolResults :
        ClaimCall(messageId, toolResult)

SpecClaim == Init /\ [][NextClaim]_vars

(***************************************************************************)
(* The directive parsers on their own: one raw value given to the four of  *)
(* them, as MessageBubble and ChatPage do with a message's toolResult.     *)
(***************************************************************************)
listVars == <<messages, assistantQueue, isDrainingAssistantQueue, drainLoops,
              executedPdfMessageIds, revealedMessageIds, typingCursor, activeTypingMessageId,
              typing, shouldShowQuickReplies, shouldBypassTyping, nextId, origin, received,
              rerenders, pdfOpened, typingDone, claimLog, importVars>>

viewVars == <<listVars, splitVars, revealVars>>

pageVars == <<viewVars, chatVars>>

S_acc == <<"a","c","c","-","1">>
S_acc_padded == <<" ","a","c","c","-","1"," ">>
S_csv_raw == <<" ",".","C","S","V"," ">>
S_pdf_raw == <<".","P","d","f">>
S_dot == <<" ","."," ">>
S_two_dots == <<".",".","O","f","x">>
S_dot_ofx == <<".","o","f","x">>

RawTypes == {JUndefined, JStr(S_ui_request), JStr(S_ui_action)}
RawNames == {JUndefined, JStr(S_import_file), JStr(S_open_pdf_report)}
RawActions ==
    {JUndefined, JStr(S_open_import_panel), JStr(S_quick_replies), JStr(S_quick_reply_yes_no)}
RawUrls == {JUndefined, JStr(S_url)}
RawQuickReplies == {JUndefined, JArr(YesNoOptions)}
TypesCsvRaw == JArr(<<JStr(S_csv_raw), JNum(1), JStr(S_dot)>>)
TypesPdfCsv == JArr(<<JStr(S_pdf_raw), JStr(S_csv_raw)>>)
TypesNothing == JArr(<<JStr(S_blank), JStr(S_dot), JNull>>)
TypesTwoDots == JArr(<<JStr(S_two_dots)>>)
RawAcceptedTypes ==
    {JUndefined, JNull, JStr(S_csv), JArr(<<>>), JArr(<<JStr(S_pdf)>>),
     TypesCsvRaw, TypesPdfCsv, TypesNothing, TypesTwoDots}
RawAccountIds == {JUndefined, JStr(S_acc), JStr(S_acc_padded), JStr(S_blank), JNum(7)}

\* objects that mix the discriminating fields of the four directives
MixedValues ==
    {JObj([type |-> type, name |-> name, action |-> action, url |-> url,
           quick_replies |-> replies, options |-> options]) :
        type \in RawTypes, name \in RawNames, action \in RawActions, url \in RawUrls,
        replies \in RawQuickReplies, options \in RawQuickReplies}

\* import directives of both kinds with any accepted_types and bank_account_id
ImportValues ==
    {JObj([type |-> JStr(S_ui_request), name |-> JStr(S_import_file),
           accepted_types |-> types, bank_account_id |-> id]) :
        types \in RawAcceptedTypes, id \in RawAccountIds}
    \cup {JObj([type |-> JStr(S_ui_action), action |-> JStr(S_open_import_panel),
                accepted_types |-> types, bank_account_id |-> id]) :
             types \in RawAcceptedTypes, id \in RawAccountIds}

RawValues ==
    MixedValues \cup ImportValues \cup ClaimToolResults
    \cup {JNum(0), JStr(S_empty), JArr(YesNoOptions), QuickRepliesNoOption}

\* MessageBubble and ChatPage hand the toolResult of a message to the parsers
Classify(value) ==
    /\ classified' = [value |-> value,
                      openImportPanel |-> toOpenImportPanelUiAction(value),
                      legacyImport |-> toLegacyImportUiRequest(value),
                      pdf |-> toPdfUiRequest(value),
                      quickReply |-> toQuickReplyYesNoUiAction(value)]
    /\ UNCHANGED <<pageVars, sessionVars, scrollVars>>

NextParse == \E value \in RawValues : Classify(value)

SpecParse == Init /\ [][NextParse]_vars

(***************************************************************************)
(* agentApi.resetSession and sessionLifecycle.logoutWithSessionReset, with *)
(* their callers in ChatPage: the page-exit listeners and handleLogout.    *)
(***************************************************************************)
MaxResetCalls == 3      \* calls of resetSession
MaxLogouts == 2         \* clicks on the logout button

LogoutErrorText == "Impossible de vous deconnecter pour le moment. Veuillez reessayer."

\* a variant of the test of the flag that lets every call through
ResetNeverReturnsEarly(requested) == FALSE

\* if (sessionResetRequested) return
ResetReturnsEarly(requested) == requested

\* resetSession up to its first await: the flag, the AbortController and the timeout
ResetSessionCalled(caller) ==
    /\ Len(resetCalls) < MaxResetCalls
    /\ IF ResetReturnsEarly(sessionResetRequested)
       THEN /\ resetCalls' = Append(resetCalls, [caller |-> caller, phase |-> "returned",
                                                 timer |-> FALSE, aborted |-> FALSE,
                                                 sent |-> FALSE, outcome |-> "none"])
            /\ UNCHANGED sessionResetRequested
       ELSE /\ sessionResetRequested' = TRUE
            /\ resetCalls' = Append(resetCalls, [caller |-> caller, phase |-> "buildAuthHeaders",
                                                 timer |-> TRUE, aborted |-> FALSE,
                                                 sent |-> FALSE, outcome |-> "none"])

\* the pagehide listener and the visibilitychange listener (document hidden)
PageExit(event) ==
    /\ ResetSessionCalled(event)
    /\ UNCHANGED <<pageVars, classified, scrollVars, logouts>>

\* await buildAuthHeaders() settles: fetch is called, or the catch block and
\* the finally block run
AuthHeadersBuilt(call, built) ==
    /\ resetCalls[call].phase = "buildAuthHeaders"
    /\ resetCalls' = [resetCalls EXCEPT ![call] =
                         IF built
                         THEN [@ EXCEPT !.phase = "fetch", !.sent = TRUE]
                         ELSE [@ EXCEPT !.phase = "settled", !.timer = FALSE,
                                        !.outcome = "caught"]]
    /\ UNCHANGED <<pageVars, classified, scrollVars, sessionResetRequested, logouts>>

\* the timeout callback: controller.abort()
ResetTimeout(call) ==
    /\ resetCalls[call].timer
    /\ resetCalls' = [resetCalls EXCEPT ![call].timer = FALSE, ![call].aborted = TRUE]
    /\ UNCHANGED <<pageVars, classified, scrollVars, sessionResetRequested, logouts>>

\* await fetch(...) settles: a response, ok or not, or a rejection (the one
\* outcome left once the signal is aborted); then the finally block
FetchSettles(call, outcome) ==
    /\ resetCalls[call].phase = "fetch"
    /\ resetCalls[call].aborted => outcome = "caught"
    /\ resetCalls' = [resetCalls EXCEPT ![call].phase = "settled", ![call].timer = FALSE,
                                        ![call].outcome = outcome]
    /\ UNCHANGED <<pageVars, classified, scrollVars, sessionResetRequested, logouts>>

\* handleLogout: setError(null), then logoutWithSessionReset up to its first
\* await; dependency is the resetSession handed in: the one of agentApi, as in
\* ChatPage, or a function that resolves or rejects, as in the tests
HandleLogout(dependency) ==
    /\ Len(logouts) < MaxLogouts
    /\ error' = NoError
    /\ IF dependency = "resetSession"
       THEN ResetSessionCalled("handleLogout")
       ELSE UNCHANGED <<sessionResetRequested, resetCalls>>
    /\ logouts' = Append(logouts, [dependency |-> dependency,
                                   reset |-> IF dependency = "resetSession"
                                             THEN Len(resetCalls) + 1 ELSE 0,
                                   phase |-> "resetSession",
                                   log |-> <<"resetSession">>])
    /\ UNCHANGED <<viewVars, composer, isLoading, toast, agentCalls, requests, importCalls,
                   lastCall, classified, scrollVars>>

\* a variant that does not wait for the promise
ResetNotAwaited(logout) == TRUE

\* the promise of the resetSession handed in has settled
ResetSettled(logout) ==
    IF logout.dependency = "resetSession"
    THEN resetCalls[logout.reset].phase \in {"returned", "settled"}
    ELSE TRUE

\* await resetSession() settles, a rejection is caught, and signOut is called
LogoutResumes(run) ==
    /\ run \in 1..Len(logouts)
    /\ logouts[run].phase = "resetSession"
    /\ ResetSettled(logouts[run])
    /\ logouts' = [logouts EXCEPT ![run].phase = "signOut",
                      ![run].log = @ \o <<IF logouts[run].dependency = "rejects"
                                          THEN "reset rejected" ELSE "reset resolved",
                                          "signOut">>]
    /\ UNCHANGED <<pageVars, classified, scrollVars, sessionResetRequested, resetCalls>>

SignOutOutcomes == {"no error", "error", "throws"}

\* await signOut() settles: onLogoutError when it throws or returns an error
SignOutSettles(run, outcome) ==
    /\ logouts[run].phase = "signOut"
    /\ logouts' = [logouts EXCEPT ![run].phase = "done",
                      ![run].log = @ \o <<outcome>>
                                     \o (IF outcome = "no error" THEN <<>>
                                         ELSE <<"onLogoutError">>)]
    /\ error' = IF outcome = "no error" THEN error ELSE LogoutErrorText
    /\ UNCHANGED <<viewVars, composer, isLoading, toast, agentCalls, requests, importCalls,
                   lastCall, classified, scrollVars, sessionResetRequested, resetCalls>>

NextSession ==
    \/ \E event \in {"pagehide", "visibilitychange"} : PageExit(event)
    \/ \E call \in 1..Len(resetCalls), built \in BOOLEAN : AuthHeadersBuilt(call, built)
    \/ \E call \in 1..Len(resetCalls) : ResetTimeout(call)
    \/ \E call \in 1..Len(resetCalls), outcome \in {"ok", "not ok", "caught"} :
          FetchSettles(call, outcome)
    \/ \E dependency \in {"resetSession", "resolves", "rejects"} : HandleLogout(dependency)
    \/ \E run \in 1..Len(logouts) : LogoutResumes(run)
    \/ \E run \in 1..Len(logouts), outcome \in SignOutOutcomes : SignOutSettles(run, outcome)

SpecSession == Init /\ [][NextSession]_vars

\* the continuation of a settled promise is run: the microtask queue is emptied
\* before the event loop takes anything else
SpecSessionLive ==
    Init /\ [][NextSession]_vars /\ \A run \in 1..MaxLogouts : WF_vars(LogoutResumes(run))

(***************************************************************************)
(* The scrolling of the message list: the effect on [messages,             *)
(* typingCursor], onTypingProgress and onScroll.  The list is seen through *)
(* its heights alone: what the messages and the typing do to it is a new   *)
(* scrollHeight.                                                           *)
(***************************************************************************)
\* const threshold = 48
Threshold == 48

ScrollHeights ==
    {ClientHeight, ClientHeight + Threshold - 1, ClientHeight + Threshold,
     ClientHeight + Threshold + 1, ClientHeight + 2 * Threshold}

\* the largest scrollTop the browser allows
Bottom(scrollHeight) == scrollHeight - ClientHeight

\* the layout after the content has changed: the browser keeps scrollTop in range
Laid(scrollHeight) ==
    [scrollTop |-> IF messagesElement.scrollTop > Bottom(scrollHeight)
                   THEN Bottom(scrollHeight) ELSE messagesElement.scrollTop,
     scrollHeight |-> scrollHeight]

\* element.scrollTop = element.scrollHeight
scrollToBottom(element) == [element EXCEPT !.scrollTop = Bottom(element.scrollHeight)]

\* a variant of the two callers that scrolls whatever the flag says
ScrollAlways(flag, element) == scrollToBottom(element)

\* if (shouldAutoScrollRef.current) { scrollToBottom() }
ScrollIfAuto(flag, element) == IF flag THEN scrollToBottom(element) ELSE element

\* a render after messages or typingCursor changed: the effect runs
MessagesChanged(scrollHeight) ==
    /\ messagesElement' = ScrollIfAuto(shouldAutoScroll, Laid(scrollHeight))
    /\ scrolledBy' = "effect"
    /\ UNCHANGED <<pageVars, classified, sessionVars, shouldAutoScroll>>

\* TypingText has revealed more of the text and reports it
TypingProgress(scrollHeight) ==
    /\ scrollHeight >= messagesElement.scrollHeight
    /\ messagesElement' = ScrollIfAuto(shouldAutoScroll, Laid(scrollHeight))
    /\ scrolledBy' = "onTypingProgress"
    /\ UNCHANGED <<pageVars, classified, sessionVars, shouldAutoScroll>>

\* scrollHeight - scrollTop - clientHeight < threshold
NearBottom(element) == element.scrollHeight - element.scrollTop - ClientHeight < Threshold

\* the places a scroll may leave the list at
ScrollTops(scrollHeight) ==
    {top \in {0, 1, Bottom(scrollHeight) - Threshold - 1, Bottom(scrollHeight) - Threshold,
              Bottom(scrollHeight) - Threshold + 1, Bottom(scrollHeight)} :
        top >= 0 /\ top <= Bottom(scrollHeight)}

\* a scroll event: the user has moved the list to scrollTop; onScroll
OnScroll(scrollTop) ==
    /\ messagesElement' = [messagesElement EXCEPT !.scrollTop = scrollTop]
    /\ shouldAutoScroll' = NearBottom(messagesElement')
    /\ scrolledBy' = "onScroll"
    /\ UNCHANGED <<pageVars, classified, sessionVars>>

NextScroll ==
    \/ \E scrollHeight \in ScrollHeights : MessagesChanged(scrollHeight)
    \/ \E scrollHeight \in ScrollHeights : TypingProgress(scrollHeight)
    \/ \E scrollTop \in ScrollTops(messagesElement.scrollHeight) : OnScroll(scrollTop)

SpecScroll == Init /\ [][NextScroll]_vars

(***************************************************************************)
(* splitAssistantReply on its own: a reply text, a sequence of characters, *)
(* is cut into the segments that are queued for display.                   *)
(***************************************************************************)
SplitThreshold == 350

S_http == <<"h","t","t","p",":","/","/">>
S_https == <<"h","t","t","p","s",":","/","/">>
S_ouvrir_le_pdf == <<"[","o","u","v","r","i","r"," ","l","e"," ","p","d","f","]","(">>

\* the pattern, in lower case, is found in s whatever the case of s
ContainsIgnoringCase(s, pattern) ==
    \E i \in 1..(Len(s) - Len(pattern) + 1) :
        \A k \in 1..Len(pattern) : ToLowerChar(s[i + k - 1]) = pattern[k]

\* LINK_LINE_REGEX.test(chunk): /\[Ouvrir le PDF\]\(|https?:\/\//i
LINK_LINE_REGEX(chunk) ==
    \E pattern \in {S_ouvrir_le_pdf, S_http, S_https} : ContainsIgnoringCase(chunk, pattern)

\* the positions where a run of two or more line feeds starts at or before
BlankLineStarts(s) == {i \in 1..(Len(s) - 1) : s[i] = "\n" /\ s[i + 1] = "\n"}

\* reply.split(/\n\n+/): the pieces between the maximal runs of line feeds of
\* length two or more, the empty pieces included
RECURSIVE SplitOnBlankLines(_)
SplitOnBlankLines(s) ==
    IF BlankLineStarts(s) = {} THEN <<s>>
    ELSE LET first == CHOOSE i \in BlankLineStarts(s) : \A j \in BlankLineStarts(s) : i <= j
             last == CHOOSE j \in first..Len(s) :
                         /\ \A k \in first..j : s[k] = "\n"
                         /\ j = Len(s) \/ s[j + 1] # "\n"
         IN  <<SubSeq(s, 1, first - 1)>> \o SplitOnBlankLines(SubSeq(s, last + 1, Len(s)))

IsNonEmpty(s) == Len(s) > 0

\* .map((item) => item.trim()).filter((item) => item.length > 0)
TrimmedNonEmpty(items) == SelectSeq([i \in 1..Len(items) |-> Trim(items[i])], IsNonEmpty)

IsTerminator(c) == c \in {".", "!", "?"}

\* chunk.match(/[^.!?]+[.!?]?/g): from left to right, the longest run of
\* characters other than . ! ? followed by one of them if there is one; a
\* character at which no match starts is passed over
RECURSIVE MatchSentences(_)
MatchSentences(s) ==
    IF s = <<>> THEN <<>>
    ELSE IF IsTerminator(s[1]) THEN MatchSentences(Tail(s))
    ELSE LET terminators == {i \in 1..Len(s) : IsTerminator(s[i])}
             end == IF terminators = {} THEN Len(s)
                    ELSE CHOOSE i \in terminators : \A j \in terminators : i <= j
         IN  <<SubSeq(s, 1, end)>> \o MatchSentences(SubSeq(s, end + 1, Len(s)))

\* sentenceChunks, with ?? [chunk] for a chunk without a match, and then
\* compactSentences
CompactSentences(chunk) ==
    LET matched == MatchSentences(chunk)
        sentenceChunks == IF matched = <<>> THEN <<chunk>> ELSE matched
    IN  TrimmedNonEmpty(sentenceChunks)

\* the for loop over compactSentences and the push after it
RECURSIVE Reduce(_, _, _)
Reduce(sentences, current, reduced) ==
    IF sentences = <<>>
    THEN IF current # <<>> THEN Append(reduced, current) ELSE reduced
    ELSE LET sentence == Head(sentences)
             candidate == IF current # <<>> THEN current \o <<" ">> \o sentence ELSE sentence
         IN  IF Len(candidate) <= SplitThreshold
             THEN Reduce(Tail(sentences), candidate, reduced)
             ELSE Reduce(Tail(sentences), sentence,
                         IF current # <<>> THEN Append(reduced, current) ELSE reduced)

\* the callback of chunks.flatMap
SplitChunk(chunk) ==
    IF Len(chunk) <= SplitThreshold \/ LINK_LINE_REGEX(chunk) THEN <<chunk>>
    ELSE LET compactSentences == CompactSentences(chunk) IN
         IF Len(compactSentences) <= 1 THEN <<chunk>>
         ELSE LET reduced == Reduce(compactSentences, <<>>, <<>>) IN
              IF Len(reduced) > 0 THEN reduced ELSE <<chunk>>

RECURSIVE Concat(_)
Concat(lists) == IF lists = <<>> THEN <<>> ELSE Head(lists) \o Concat(Tail(lists))

Chunks(reply) == TrimmedNonEmpty(SplitOnBlankLines(reply))

splitAssistantReply(reply) ==
    LET chunks == Chunks(reply) IN
    Concat([k \in 1..Len(chunks) |-> SplitChunk(chunks[k])])

\* the texts a reply is put together from
MaxPieces == 4
Repeat(c, n) == [i \in 1..n |-> c]
Sentence(n) == Repeat("a", n - 1) \o <<".">>
S_link == <<"H","T","T","P",":","/","/","a">>
S_pdf_link == <<"[","O","u","v","r","i","r"," ","l","e"," ","P","D","F","]","(","/","r",")">>
S_md_link == <<"[","r","]","(","/","f",".","p",")">>
Pieces ==
    {Sentence(SplitThreshold - 250), Sentence(SplitThreshold - 101),
     Sentence(SplitThreshold - 100), Sentence(SplitThreshold + 1),
     <<" ">>, <<"\n", "\n">>, <<".", ".">>, <<"!">>, S_link, S_pdf_link, S_md_link}
Replies == {Concat(parts) : parts \in UNION {[1..n -> Pieces] : n \in 0..MaxPieces}}

\* a reply has been received and is split; replies are split independently of
\* each other, so that one of them is followed
SplitReply(reply) ==
    /\ replyText = <<>>
    /\ replyText' = reply
    /\ replySegments' = splitAssistantReply(reply)
    /\ UNCHANGED <<listVars, chatVars, classified, sessionVars, scrollVars, revealVars>>

NextSplit == \E reply \in Replies : SplitReply(reply)

SpecSplit == Init /\ [][NextSplit]_vars

(***************************************************************************)
(* One TypingText instance with the closures of its reveal effect.  Every  *)
(* run of the effect has its own active flag and timerId; a timer that is  *)
(* pending belongs to the run that set it.  Under React.StrictMode the     *)
(* updater given to setVisibleLength may be invoked twice, and each        *)
(* invocation sets a timer.                                                *)
(***************************************************************************)
MaxRenders == 3
MaxTimers == 5
RevealLengths == {ShortLength, ShortLength + 2}

\* a variant of step() without the test of the active flag
StepNeverReturnsEarly(closure) == FALSE

\* step(): if (!active) return
StepReturnsEarly(closure) == ~closure.active

\* the cleanup of the reveal effect: active = false, clearTimeout(timerId)
CleanedUp(runs, timers) ==
    [runs |-> [r \in 1..Len(runs) |-> [runs[r] EXCEPT !.active = FALSE]],
     timers |-> {timer \in timers :
                    ~(runs[timer.run].active /\ timer.id = runs[timer.run].timerId)}]

\* TypingText is rendered by its parent: the reveal effect is cleaned up and
\* run again, and the completion effect runs
RenderTypingText(instance, runs, timers, length, isActiveTyping, bypass) ==
    LET cleaned == CleanedUp(runs, timers)
        commit == TypingCommit([id |-> 1, content |-> [length |-> length]], instance.instance,
                               IF instance.revealed THEN {1} ELSE {},
                               IF isActiveTyping THEN 1 ELSE NoId, bypass)
        timerId == instance.timers + 1
    IN [typingText |-> [instance EXCEPT !.instance = commit.instance,
                                        !.length = length,
                                        !.isActiveTyping = isActiveTyping,
                                        !.revealed = @ \/ commit.add,
                                        !.done = @ + (IF commit.fired THEN 1 ELSE 0),
                                        !.timers = IF commit.instance.timer THEN timerId ELSE @,
                                        !.lastStep = "none"],
        effectRuns |-> IF commit.instance.timer
                       THEN Append(cleaned.runs, [active |-> TRUE, timerId |-> timerId])
                       ELSE cleaned.runs,
        pendingTimers |-> IF commit.instance.timer
                          THEN cleaned.timers \cup {[run |-> Len(cleaned.runs) + 1, id |-> timerId]}
                          ELSE cleaned.timers,
        fired |-> commit.fired]

\* the renders that follow one another while onTypingDone bumps the typing
\* cursor of the parent; a revealed message is not the active one
RECURSIVE RenderedTypingText(_, _, _, _, _, _)
RenderedTypingText(instance, runs, timers, length, isActiveTyping, bypass) ==
    LET next == RenderTypingText(instance, runs, timers, length, isActiveTyping, bypass) IN
    IF next.fired
    THEN RenderedTypingText(next.typingText, next.effectRuns, next.pendingTimers, length,
                            FALSE, bypass)
    ELSE next

\* the parent renders the message, for the first time or again
ParentRenders(length, isActiveTyping) ==
    /\ typingText.renders < MaxRenders
    /\ typingText.timers < MaxTimers
    /\ \E next \in {RenderedTypingText(typingText, effectRuns, pendingTimers, length,
                                        isActiveTyping, shouldBypassTyping)} :
          /\ typingText' = [next.typingText EXCEPT !.renders = @ + 1]
          /\ effectRuns' = next.effectRuns
          /\ pendingTimers' = next.pendingTimers
    /\ UNCHANGED <<listVars, chatVars, classified, sessionVars, scrollVars, splitVars>>

\* the parent renders the list without the message: the instance unmounts
Unmounts ==
    /\ typingText.instance.mounted
    /\ typingText' = [typingText EXCEPT !.instance = Unmounted, !.lastStep = "none"]
    /\ effectRuns' = CleanedUp(effectRuns, pendingTimers).runs
    /\ pendingTimers' = CleanedUp(effectRuns, pendingTimers).timers
    /\ UNCHANGED <<listVars, chatVars, classified, sessionVars, scrollVars, splitVars>>

\* a pending timer fires: step() of the run that set it; the updater is
\* invoked once or twice, and due tells whether 100 ms have passed since the
\* last progress callback
TimerFires(timer, invocations, due) ==
    /\ timer \in pendingTimers
    /\ IF StepReturnsEarly(effectRuns[timer.run])
       THEN /\ typingText' = [typingText EXCEPT !.lastStep = "no-op"]
            /\ pendingTimers' = pendingTimers \ {timer}
            /\ UNCHANGED effectRuns
       ELSE LET length == typingText.length
                previous == typingText.instance.visibleLength
                next == StepLength(length, previous)
                complete == next >= length
                visible == IF complete THEN length ELSE next
                isRevealed == typingText.revealed \/ complete
                progressed == ~complete /\ next > previous /\ due
                timerId == typingText.timers + invocations
                set == IF complete THEN {}
                       ELSE {[run |-> timer.run, id |-> typingText.timers + n] :
                                n \in 1..invocations}
                fired == /\ visible # previous
                         /\ visible >= length
                         /\ isRevealed
                         /\ ~typingText.instance.completionNotified
                stepped == [typingText EXCEPT
                               !.instance = [@ EXCEPT !.visibleLength = visible,
                                                      !.timer = ~complete,
                                                      !.completionNotified = @ \/ fired],
                               !.revealed = isRevealed,
                               !.done = @ + (IF fired THEN 1 ELSE 0),
                               !.progress = IF progressed THEN 1 ELSE @,
                               !.timers = IF complete THEN @ ELSE timerId,
                               !.lastStep = "step"]
                runs == IF complete THEN effectRuns
                        ELSE [effectRuns EXCEPT ![timer.run].timerId = timerId]
                timers == (pendingTimers \ {timer}) \cup set
            IN  /\ typingText.timers + invocations <= MaxTimers
                /\ IF fired
                   THEN \E after \in {RenderedTypingText(stepped, runs, timers, length, FALSE,
                                                         shouldBypassTyping)} :
                           /\ typingText' = [after.typingText EXCEPT !.lastStep = "step"]
                           /\ effectRuns' = after.effectRuns
                           /\ pendingTimers' = after.pendingTimers
                   ELSE /\ typingText' = stepped
                        /\ effectRuns' = runs
                        /\ pendingTimers' = timers
    /\ UNCHANGED <<listVars, chatVars, classified, sessionVars, scrollVars, splitVars>>

NextReveal ==
    \/ \E length \in RevealLengths, isActiveTyping \in BOOLEAN :
          ParentRenders(length, isActiveTyping)
    \/ Unmounts
    \/ \E timer \in pendingTimers, invocations \in 1..2, due \in BOOLEAN :
          TimerFires(timer, invocations, due)

SpecReveal == Init /\ [][NextReveal]_vars

(***************************************************************************)
(* Properties.                                                             *)
(***************************************************************************)
IsValidPdf(toolResult) == toPdfUiRequest(toolResult) # JNull
PdfMessageIds == {messages[i].id : i \in {j \in 1..Len(messages) :
                     messages[j].role = "assistant" /\ IsValidPdf(messages[j].toolResult)}}

\* C1: whatever re-runs of the PDF auto-open scan have happened, the scan has
\* called openPdfFromUrl exactly once for every assistant message in the list
\* that carries a valid open_pdf_report directive, and never for another id.
C1_PdfOpenedExactlyOnce ==
    \A id \in Ids :
        /\ id \in PdfMessageIds => pdfOpened[id] = 1 /\ id \in executedPdfMessageIds
        /\ id \notin PdfMessageIds => pdfOpened[id] = 0

\* a PDF message was opened once, the scan has fired again and later messages
\* have been appended behind it
C1_Witness ==
    \E i \in 1..Len(messages) :
        /\ messages[i].id \in PdfMessageIds
        /\ pdfOpened[messages[i].id] = 1
        /\ i < Len(messages)
        /\ rerenders > 0

\* earlier calls of the log with the same id and a valid directive
EarlierValidCalls(i) ==
    {j \in 1..(i - 1) : /\ claimLog[j].messageId = claimLog[i].messageId
                        /\ IsValidPdf(claimLog[j].toolResult)}

\* C2: among the calls made with one message id and a valid open_pdf_report
\* directive, the first returns the request (with its trimmed url) and every
\* later one returns null.
C2_ClaimReturnsRequestOnce ==
    \A i \in 1..Len(claimLog) :
        IsValidPdf(claimLog[i].toolResult) =>
            IF EarlierValidCalls(i) = {}
            THEN claimLog[i].result = toPdfUiRequest(claimLog[i].toolResult)
            ELSE claimLog[i].result = JNull

\* the same id was claimed twice with a valid directive, with a call for an
\* invalid directive before them
C2_Witness ==
    /\ Len(claimLog) = 3
    /\ claimLog[1].messageId = claimLog[2].messageId
    /\ claimLog[2].messageId = claimLog[3].messageId
    /\ ~IsValidPdf(claimLog[1].toolResult)
    /\ claimLog[2].toolResult = PdfDirectivePadded
    /\ claimLog[2].result = PdfDirective
    /\ IsValidPdf(claimLog[3].toolResult)
    /\ claimLog[3].result = JNull

\* the ids handed to the segments of replies, and the index of the first
\* entry with a given id in a sequence of entries
PushedIds == {id \in Ids : origin[id] # NoOrigin}
IsLastSegment(id) == origin[id].index = origin[id].count
CarriesNothing(entry) ==
    /\ entry.toolResult = JNull
    /\ entry.plan = JNull
    /\ entry.debugPayload = JNull

\* C3: of the entries queued for a reply with segments s1..sn, those for
\* s1..s(n-1) carry a null toolResult, plan and debugPayload and the entry for
\* sn carries the toolResult, plan and payload of the reply; and no message
\* of the list built from a segment other than the last carries anything.
C3_DirectiveOnLastSegmentOnly ==
    /\ \A i \in 1..Len(assistantQueue) :
          LET entry == assistantQueue[i] IN
          /\ entry.id \in PushedIds
          /\ IF IsLastSegment(entry.id)
             THEN /\ entry.toolResult = received[origin[entry.id].reply].toolResult
                  /\ entry.plan = received[origin[entry.id].reply].plan
                  /\ entry.debugPayload = ResponsePayload(origin[entry.id].reply)
             ELSE CarriesNothing(entry)
    /\ \A i \in 1..Len(messages) :
          (messages[i].id \in PushedIds /\ ~IsLastSegment(messages[i].id))
              => CarriesNothing(messages[i])

\* both segments of a reply with a directive are queued: the first carries
\* nothing, the last carries the directive and the plan
C3_Witness ==
    \E i, j \in 1..Len(assistantQueue) :
        /\ i < j
        /\ origin[assistantQueue[i].id].reply = origin[assistantQueue[j].id].reply
        /\ ~IsLastSegment(assistantQueue[i].id)
        /\ CarriesNothing(assistantQueue[i])
        /\ IsLastSegment(assistantQueue[j].id)
        /\ assistantQueue[j].toolResult = PdfDirective
        /\ assistantQueue[j].plan = PlanObject

\* the ids of the reply segments in the list, in list order, then those queued
ReplyMessageIds ==
    LET replyMessages == SelectSeq(messages, LAMBDA chatMessage : chatMessage.id \in PushedIds)
    IN [i \in 1..Len(replyMessages) |-> replyMessages[i].id]
QueuedIds == [i \in 1..Len(assistantQueue) |-> assistantQueue[i].id]
PositionOf(id) == CHOOSE i \in 1..Len(messages) : messages[i].id = id

\* C4: the reply segments of the message list, followed by the queued ones,
\* are the pushed segments in the order of their enqueueing (ids are handed out
\* in that order); and whenever the last segment of a reply is in the list,
\* every earlier segment of that reply is in the list before it.
C4_AppendedInEnqueueOrder ==
    /\ LET ids == ReplyMessageIds \o QueuedIds IN
       /\ \A i, j \in 1..Len(ids) : i < j => ids[i] < ids[j]
       /\ {ids[i] : i \in 1..Len(ids)} = PushedIds
    /\ \A last \in PushedIds :
          (IsLastSegment(last) /\ last \in AssistantIds(messages)) =>
              \A earlier \in PushedIds :
                  (origin[earlier].reply = origin[last].reply /\ earlier < last) =>
                      /\ earlier \in AssistantIds(messages)
                      /\ PositionOf(earlier) < PositionOf(last)

\* the list holds, in order, both segments of one reply and both of the
\* next, the second reply having been enqueued while the first was draining
C4_Witness ==
    /\ Len(ReplyMessageIds) = 4
    /\ assistantQueue = <<>>
    /\ origin[ReplyMessageIds[2]].reply = 1
    /\ origin[ReplyMessageIds[3]].reply = 2
    /\ messages[PositionOf(ReplyMessageIds[4])].toolResult # JNull

\* an enqueue call that finds the drain loop suspended in its delay
EnqueueWhileDraining == isDrainingAssistantQueue /\ received' # received

\* C5: at most one drainAssistantQueue loop is active and the draining flag
\* is set exactly while it is; an enqueue call made while the flag is set
\* appends its entries to the queue and pops nothing, appends no message and
\* starts no loop; the flag is cleared only by the active loop, on its exit
\* with an empty queue.
C5_SingleDrainLoop ==
    /\ [](drainLoops <= 1 /\ (isDrainingAssistantQueue <=> drainLoops = 1))
    /\ [][/\ EnqueueWhileDraining =>
                /\ messages' = messages
                /\ drainLoops' = drainLoops
                /\ isDrainingAssistantQueue'
                /\ Len(assistantQueue') >= Len(assistantQueue)
                /\ SubSeq(assistantQueue', 1, Len(assistantQueue)) = assistantQueue
          /\ (isDrainingAssistantQueue /\ ~isDrainingAssistantQueue') =>
                /\ drainLoops = 1
                /\ drainLoops' = 0
                /\ assistantQueue' = <<>>
                /\ received' = received]_vars

\* the loop is suspended in its delay with entries of two replies queued:
\* the second reply was enqueued while the flag was set
C5_Witness ==
    /\ isDrainingAssistantQueue
    /\ drainLoops = 1
    /\ \E i, j \in 1..Len(assistantQueue) :
          origin[assistantQueue[i].id].reply # origin[assistantQueue[j].id].reply

\* The operations on the queue and the reveal ticks that interleave with
\* them.  The delay of a suspended drain loop is a window.setTimeout of a
\* finite duration: it elapses.
NextLive ==
    \/ \E segments \in ReplySegments, directive \in ReplyDirectives :
          ReceiveReply(segments, directive.toolResult, directive.plan)
    \/ DrainTimer
    \/ \E id \in Ids : TypingStep(id)

SpecLive == Init /\ [][NextLive]_vars /\ WF_vars(DrainTimer)

\* the same with the timers of the reveal: every pending timer fires
SpecRevealLive ==
    Init /\ [][NextLive]_vars /\ WF_vars(DrainTimer) /\ \A id \in Ids : WF_vars(TypingStep(id))

\* The reveal of long messages (past 120 characters the tick adds 4) with
\* the import flow, which replaces the content of a message in place.
TypingReplies ==
    {[segments |-> <<long>>, toolResult |-> ImportRequestDirective] : long \in LongContents}
    \cup {[segments |-> <<short, long>>, toolResult |-> JNull] :
             short \in ShortContents, long \in LongContents}

NextTyping ==
    \/ \E reply \in TypingReplies : ReceiveReply(reply.segments, reply.toolResult, JNull)
    \/ DrainTimer
    \/ \E id \in Ids : TypingStep(id)
    \/ Rerender
    \/ \E id \in Ids : OnImportNow(id)
    \/ \E file \in 1..Len(Files) : HandleFileChange(file)
    \/ HandleImport
    \/ \E upload \in uploads, outcome \in ImportOutcomes, clarification \in ClarificationContents :
          ImportSettles(upload, outcome, clarification)

SpecTyping == Init /\ [][NextTyping]_vars

Occurrences(ids, id) == Cardinality({i \in 1..Len(ids) : ids[i] = id})
MessageIds == [i \in 1..Len(messages) |-> messages[i].id]
IsQueued(id) == Occurrences(QueuedIds, id) > 0
IsAppended(id) == Occurrences(MessageIds, id) = 1

\* C6: every pushed segment is at any time either queued once or in the
\* message list once, never both and never twice; when no drain loop is
\* active the queue is empty; and every queued segment is eventually in the
\* message list and out of the queue, whatever enqueue calls interleave with
\* the delay timers.
C6_EverySegmentAppendedOnce ==
    /\ [](\A id \in PushedIds : Occurrences(QueuedIds, id) + Occurrences(MessageIds, id) = 1)
    /\ [](~isDrainingAssistantQueue => assistantQueue = <<>>)
    /\ \A id \in Ids : IsQueued(id) ~> (IsAppended(id) /\ ~IsQueued(id))

\* the loop has exited after appending the segments of two replies, the
\* second enqueued during the delay of the first
C6_Witness ==
    /\ ~isDrainingAssistantQueue
    /\ assistantQueue = <<>>
    /\ Len(received) = 2
    /\ received[2].draining
    /\ Cardinality(PushedIds) = 4
    /\ \A id \in PushedIds : IsAppended(id)

\* a step in which ChatPage has rendered: the list, the typing cursor or the
\* dialog flag changed
ChatPageRendered ==
    \/ messages' # messages
    \/ typingCursor' # typingCursor
    \/ isImportDialogOpen' # isImportDialogOpen

\* C7: onTypingDone has been called at most once for every message id, and
\* once exactly for the ids whose TypingText has notified; a call is made only
\* for a revealed message shown at full length; no call is ever taken back;
\* the tick that completes a reveal by changing the visible length makes the
\* call at once, and after every render of ChatPage the call has been made
\* once for every revealed message.  (A completing tick that leaves the
\* visible length as it is makes the call at the next render of ChatPage.)
C7_TypingDoneExactlyOnce ==
    /\ [](\A id \in Ids :
            /\ typingDone[id] <= 1
            /\ typingDone[id] = 1 <=> typing[id].completionNotified
            /\ typingDone[id] = 1 =>
                  /\ id \in revealedMessageIds
                  /\ id \in AssistantIds(messages)
                  /\ typing[id].visibleLength = MessageOf(messages, id).content.length)
    /\ [][\A id \in Ids :
            /\ typingDone'[id] >= typingDone[id]
            /\ (/\ id \notin revealedMessageIds
                /\ id \in revealedMessageIds'
                /\ typing'[id].visibleLength # typing[id].visibleLength) => typingDone'[id] = 1
            /\ (ChatPageRendered /\ id \in revealedMessageIds') => typingDone'[id] = 1]_vars

\* two messages were revealed one after the other by the animation, with a
\* re-render of ChatPage on the way: one call each
C7_Witness ==
    /\ ~shouldBypassTyping
    /\ rerenders > 0
    /\ Len(messages) >= 2
    /\ typingDone[messages[1].id] = 1
    /\ typingDone[messages[2].id] = 1
    /\ typingCursor = 2

IsRevealing(id) == typing[id].timer
EarlierAssistantIds(id) ==
    {messages[i].id : i \in {j \in 1..Len(messages) :
        messages[j].role = "assistant" /\ j < PositionOf(id)}}

\* C9: at most one assistant message is revealing (has a pending tick); it
\* is the active typing message and the oldest assistant message whose id is
\* not in the revealed set; the memoized active id, unless already revealed,
\* is that oldest one; an unrevealed assistant message other than the oldest
\* is not rendered; and a message shows text only if every assistant message
\* before it is revealed.
C9_OneMessageRevealing ==
    /\ Cardinality({id \in Ids : IsRevealing(id)}) <= 1
    /\ activeTypingMessageId \notin revealedMessageIds
          => activeTypingMessageId = FirstUnrevealed(messages, revealedMessageIds)
    /\ \A id \in Ids :
          /\ IsRevealing(id) =>
                /\ id = activeTypingMessageId
                /\ id = FirstUnrevealed(messages, revealedMessageIds)
          /\ typing[id].mounted => id \in AssistantIds(messages)
          /\ (/\ id \in AssistantIds(messages)
              /\ id \notin revealedMessageIds
              /\ id # FirstUnrevealed(messages, revealedMessageIds)) => ~typing[id].mounted
          /\ (typing[id].mounted /\ typing[id].visibleLength > 0) =>
                EarlierAssistantIds(id) \subseteq revealedMessageIds

\* the first of two assistant messages is half revealed and the second, not
\* revealed, is not rendered
C9_Witness ==
    \E i, j \in 1..Len(messages) :
        /\ i < j
        /\ messages[i].role = "assistant"
        /\ messages[j].role = "assistant"
        /\ IsRevealing(messages[i].id)
        /\ typing[messages[i].id].visibleLength > 0
        /\ typing[messages[i].id].visibleLength < messages[i].content.length
        /\ messages[j].id \notin revealedMessageIds
        /\ ~typing[messages[j].id].mounted

LatestAssistant == messages[LatestAssistantIndex(messages, Len(messages))]

\* C10: whenever the quick replies are shown, the newest assistant message
\* carries a quick_replies or quick_reply_yes_no directive, its id is in the
\* revealed set, its text is shown in full, no assistant message is
\* unrevealed or active and no reveal tick is pending.
C10_QuickRepliesAfterReveal ==
    shouldShowQuickReplies =>
        /\ LatestAssistantIndex(messages, Len(messages)) # 0
        /\ toQuickReplyYesNoUiAction(LatestAssistant.toolResult) # JNull
        /\ LatestAssistant.id \in revealedMessageIds
        /\ typing[LatestAssistant.id].visibleLength = LatestAssistant.content.length
        /\ activeTypingMessageId = NoId
        /\ FirstUnrevealed(messages, revealedMessageIds) = NoId
        /\ \A id \in Ids : ~IsRevealing(id)

\* the quick replies are shown after the animation has revealed a two-segment
\* reply whose last segment carries them; and they were hidden while it ran
C10_Witness ==
    /\ shouldShowQuickReplies
    /\ ~shouldBypassTyping
    /\ Len(messages) >= 2
    /\ LatestAssistant.toolResult = QuickRepliesDirective
    /\ typingDone[LatestAssistant.id] = 1

VisibleLength(id) == typing[id].visibleLength
ContentLength(id) == MessageOf(messages, id).content.length

\* C8 as stated: the visible length of a rendered assistant message never
\* decreases (here for the animated reveal alone).
C8_VisibleLengthNeverDecreases ==
    [][\A id \in Ids :
          (~shouldBypassTyping /\ typing[id].mounted /\ typing'[id].mounted) =>
              typing'[id].visibleLength >= VisibleLength(id)]_vars

\* C8, amended: the visible length of a rendered assistant message never
\* falls below the smaller of its previous value and the length of the
\* current content, so it decreases only when the content was replaced in
\* place by a text shorter than what was shown; a tick either raises the
\* visible length, staying below the content length with the next tick
\* pending, or ends the reveal: the visible length is the content length, the
\* id is in the revealed set and no tick is pending; a rendered message is
\* revealed and shown at exactly its content length, or has a tick pending
\* that will raise its visible length or end its reveal.
C8_VisibleLengthReachesContent ==
    /\ [](\A id \in Ids :
            typing[id].mounted =>
                IF id \in revealedMessageIds
                THEN VisibleLength(id) = ContentLength(id) /\ ~IsRevealing(id)
                ELSE /\ IsRevealing(id)
                     /\ \/ StepLength(ContentLength(id), VisibleLength(id)) > VisibleLength(id)
                        \/ StepLength(ContentLength(id), VisibleLength(id)) >= ContentLength(id))
    /\ [][\A id \in Ids :
            (typing[id].mounted /\ typing'[id].mounted) =>
                LET length == MessageOf(messages', id).content.length
                    visible == typing'[id].visibleLength
                IN /\ visible >= Min(VisibleLength(id), length)
                   /\ TypingStep(id) =>
                         \/ /\ visible > VisibleLength(id)
                            /\ visible < length
                            /\ typing'[id].timer
                         \/ /\ visible = length
                            /\ id \in revealedMessageIds'
                            /\ ~typing'[id].timer]_vars

\* the animation has revealed a message of more than 120 characters in full,
\* and the message after it, half revealed, has had its content replaced by a
\* text shorter than what it showed
C8_Witness ==
    /\ ~shouldBypassTyping
    /\ \E id \in Ids :
          /\ typing[id].mounted
          /\ id \in revealedMessageIds
          /\ VisibleLength(id) = LongLength
    /\ \E id \in Ids :
          /\ typing[id].mounted
          /\ IsRevealing(id)
          /\ VisibleLength(id) > ContentLength(id)


(***************************************************************************)
(* The chat requests: the composer, handleSubmit, submitQuickReply,        *)
(* startConversation and the answers of sendChatMessage.                   *)
(***************************************************************************)
MaxAgentCalls == 2
MaxUploads == 2

S_padded == <<" ","h","i"," ">>
ComposerTexts == {S_empty, S_blank, S_padded}
FailureTexts == {"Erreur API agent (500)", "Erreur inconnue"}

isImportRequired == findPendingImportIntent(messages) # NoIntent

\* the id crypto.randomUUID gives the user message of the next request
UserMessageId(call) == MaxId + Len(Files) + call
UserMessage(id, content) ==
    [id |-> id, role |-> "user", content |-> content,
     toolResult |-> JUndefined, plan |-> JUndefined, debugPayload |-> JUndefined]

\* a variant of the guard that does not look at the loading flag
SubmitIgnoresLoading(trimmedMessage, loading, importRequired) ==
    trimmedMessage = <<>> \/ importRequired

\* !trimmedMessage || isLoading || isImportRequired
SubmitReturnsEarly(trimmedMessage, loading, importRequired) ==
    trimmedMessage = <<>> \/ loading \/ importRequired

\* isLoading || isImportRequired
QuickReplyReturnsEarly(loading, importRequired) == loading \/ importRequired

\* sendChatMessage is called
Sent(apiMessage, caller, upload) ==
    /\ agentCalls' = Append(agentCalls, [message |-> apiMessage, caller |-> caller,
                                         upload |-> upload, reply |-> 0])
    /\ requests' = requests \cup {Len(agentCalls) + 1}

Found(handler) ==
    [handler |-> handler, isLoading |-> isLoading, isImportRequired |-> isImportRequired,
     blank |-> Trim(composer) = <<>>, message |-> NoId, option |-> JNull]

\* the user edits the composer: setMessage(event.target.value); the textarea is
\* disabled while an import is required
SetMessage(text) ==
    /\ ~isImportRequired
    /\ composer # text
    /\ composer' = text
    /\ Rendered(messages, View, FALSE)
    /\ UNCHANGED <<messages, assistantQueue, isDrainingAssistantQueue, drainLoops,
                   executedPdfMessageIds, shouldBypassTyping, nextId, origin, received,
                   rerenders, pdfOpened, claimLog, callVars, importVars, isLoading, error, toast,
                   agentCalls, requests, importCalls, lastCall>>

\* handleSubmit and submitQuickReply from the optimistic user message to the await
Submitted(content, apiMessage, caller) ==
    /\ Len(agentCalls) < MaxAgentCalls
    /\ LET appended == Append(messages,
                              UserMessage(UserMessageId(Len(agentCalls) + 1), content))
       IN /\ messages' = appended
          /\ Rendered(appended, View, TRUE)
          /\ PdfEffectRuns(appended)
    /\ composer' = <<>>
    /\ error' = NoError
    /\ isLoading' = TRUE
    /\ Sent(apiMessage, caller, NoId)
    /\ UNCHANGED <<assistantQueue, isDrainingAssistantQueue, drainLoops, shouldBypassTyping,
                   nextId, origin, received, rerenders, claimLog, callVars, importVars, toast,
                   importCalls>>

\* the handler returned at its guard
ReturnedEarly ==
    UNCHANGED <<messages, assistantQueue, isDrainingAssistantQueue, drainLoops,
                executedPdfMessageIds, revealedMessageIds, typingCursor,
                activeTypingMessageId, typing, shouldShowQuickReplies, shouldBypassTyping,
                nextId, origin, received, rerenders, pdfOpened, typingDone, claimLog, callVars,
                importVars, composer, isLoading, error, toast, agentCalls, requests,
                importCalls>>

\* the form of the composer is submitted (the button, or Enter in the textarea)
HandleSubmit ==
    /\ lastCall' = Found("handleSubmit")
    /\ IF SubmitReturnsEarly(Trim(composer), isLoading, isImportRequired)
       THEN ReturnedEarly
       ELSE Submitted([text |-> "user", length |-> Len(Trim(composer))], Trim(composer),
                      "handleSubmit")

\* the options of the rendered QuickReplyBar
ShownOptions ==
    LET action == quickReplyAction(messages)
    IN IF action = JNull THEN {}
       ELSE {Field(action, "options").v[i] : i \in 1..Len(Field(action, "options").v)}

\* a variant that sends the value of the option as it is
ApiMessageAsGiven(normalizedValue) == normalizedValue

\* normalizedValue === 'non' ? 'non' : 'oui'
ApiMessage(normalizedValue) == IF normalizedValue = S_non THEN S_non ELSE S_oui

\* option.label.trim() === (cross mark) || normalizedValue === 'non' ? (cross mark) : (check mark)
DisplayMessage(label, normalizedValue) ==
    IF label = S_cross \/ normalizedValue = S_non THEN S_cross ELSE S_check

\* onSubmitQuickReply of QuickReplyBar: the option becomes displayMessage and apiMessage;
\* the guard of submitQuickReply repeats the disabled attribute of the buttons
SubmitQuickReply(option) ==
    /\ shouldShowQuickReplies
    /\ lastCall' = [Found("submitQuickReply") EXCEPT !.option = option]
    /\ LET normalizedValue == ToLowerCase(Trim(Field(option, "value").v))
           displayMessage == DisplayMessage(Trim(Field(option, "label").v), normalizedValue)
           apiMessage == ApiMessage(normalizedValue)
       IN IF QuickReplyReturnsEarly(isLoading, isImportRequired)
          THEN ReturnedEarly
          ELSE Submitted([text |-> displayMessage[1], length |-> Len(displayMessage)],
                         apiMessage, "submitQuickReply")

\* the button of the empty state
StartConversation ==
    /\ messages = <<>>
    /\ lastCall' = Found("startConversation")
    /\ IF isLoading
       THEN ReturnedEarly
       ELSE /\ Len(agentCalls) < MaxAgentCalls
            /\ isLoading' = TRUE
            /\ error' = NoError
            /\ Sent(<<>>, "startConversation", NoId)
            /\ Rendered(messages, View, FALSE)
            /\ UNCHANGED <<messages, assistantQueue, isDrainingAssistantQueue, drainLoops,
                           executedPdfMessageIds, shouldBypassTyping, nextId, origin,
                           received, rerenders, pdfOpened, claimLog, callVars, importVars, composer,
                           toast, importCalls>>

\* sendChatMessage resolves: the try block and the finally block of its caller;
\* agentCalls notes which of the replies received answers the call
RequestResolves(call, segments, toolResult, plan) ==
    /\ call \in requests
    /\ requests' = requests \ {call}
    /\ agentCalls' = [agentCalls EXCEPT ![call].reply = Len(received) + 1]
    /\ ReplyEnqueued(segments, toolResult, plan)
    /\ isLoading' = FALSE
    /\ UNCHANGED <<shouldBypassTyping, rerenders, claimLog, callVars, importVars, composer, error,
                   toast, importCalls, lastCall>>

\* a variant without the finally block
CaughtWithoutFinally(caller, text) ==
    [error |-> IF caller = "onConfirmImport" THEN error ELSE text,
     toast |-> IF caller = "onConfirmImport" THEN text ELSE toast,
     isLoading |-> isLoading]

\* what the catch block and the finally block of caller leave: setError in the
\* submit handlers, setToast in onConfirmImport, setIsLoading(false) in both
CaughtRequest(caller, text) ==
    [error |-> IF caller = "onConfirmImport" THEN error ELSE text,
     toast |-> IF caller = "onConfirmImport" THEN text ELSE toast,
     isLoading |-> FALSE]

\* sendChatMessage rejects: the catch block and the finally block of its caller
RequestFails(call, text) ==
    /\ call \in requests
    /\ requests' = requests \ {call}
    /\ \E caught \in {CaughtRequest(agentCalls[call].caller, text)} :
          /\ error' = caught.error
          /\ toast' = caught.toast
          /\ isLoading' = caught.isLoading
    /\ Rendered(messages, View, FALSE)
    /\ UNCHANGED <<messages, assistantQueue, isDrainingAssistantQueue, drainLoops,
                   executedPdfMessageIds, shouldBypassTyping, nextId, origin, received,
                   rerenders, pdfOpened, claimLog, callVars, importVars, composer, agentCalls,
                   importCalls, lastCall>>


(***************************************************************************)
(* The upload task of onConfirmImport: the progress interval, the file     *)
(* read, importReleves and the follow-up request.                          *)
(***************************************************************************)
\* onImportNow, with the clicked message noted for the properties
ImportNowClicked(id) ==
    /\ ImportNowOpens(id)
    /\ lastCall' = [Found("onImportNow") EXCEPT !.message = id]
    /\ UNCHANGED <<composer, isLoading, error, toast, agentCalls, requests, importCalls>>

\* what importReleves may resolve to
ClarificationResult(content) ==
    JObj([ok |-> [k |-> "bool", v |-> FALSE], type |-> JStr(<<"clarification">>),
          message |-> content])
ErrorResult(content) ==
    JObj([ok |-> [k |-> "bool", v |-> FALSE], type |-> JStr(<<"error">>),
          message |-> content])
ImportedResult == JObj([imported_count |-> JNum(1)])
ErrorContent == [text |-> "error", length |-> 8]
ImportResults ==
    {ClarificationResult(content) : content \in ClarificationContents}
    \cup {ErrorResult(ErrorContent), ImportedResult}

isImportClarificationResult(value) ==
    /\ value.k = "obj"
    /\ FieldOf(value, "ok") = [k |-> "bool", v |-> FALSE]
    /\ FieldOf(value, "type") = JStr(<<"clarification">>)

\* a variant that leaves the interval running
NotCleared(upload, phase) == [upload EXCEPT !.phase = phase, !.running = upload.interval]

\* window.clearInterval(progressInterval), and the task goes on to phase;
\* currentPercent is read by the callback of the interval alone, and running
\* notes whether the interval was still running
Cleared(upload, phase) ==
    [upload EXCEPT !.interval = FALSE, !.currentPercent = 0, !.phase = phase,
                   !.running = upload.interval]

\* the user clicks "Importer": handleImport, and onConfirmImport up to its first await
ConfirmImport ==
    /\ isImportDialogOpen
    /\ selectedFile # 0
    /\ LET intent == findPendingImportIntent(messages)
           extension == Extension(Files[selectedFile].name)
       IN IF extension = <<>> \/ ~Includes(intent.acceptedTypes, extension)
          THEN \* onImportError
               /\ toast' = "Format invalide"
               /\ Rendered(messages, View, FALSE)
               /\ UNCHANGED <<messages, executedPdfMessageIds, pdfOpened, nextId, importVars,
                              error>>
          ELSE /\ imports < MaxUploads
               /\ nextId < MaxId
               /\ imports' = imports + 1
               /\ nextId' = nextId + 1
               /\ uploadMessageGuards' = uploadMessageGuards \cup {selectedFile}
               /\ uploads' = uploads \cup {[progressId |-> nextId + 1,
                                            messageId |-> intent.messageId,
                                            currentPercent |-> 5, interval |-> TRUE,
                                            file |-> selectedFile,
                                            phase |-> "readFileAsBase64",
                                            result |-> JUndefined, running |-> FALSE,
                                            clicked |-> lastCall.message]}
               /\ selectedFile' = 0
               /\ isImportDialogOpen' = FALSE
               /\ error' = NoError
               /\ LET appended == ConfirmedMessages(messages, selectedFile, nextId + 1,
                                                    uploadMessageGuards)
                  IN /\ messages' = appended
                     /\ Rendered(appended, View, TRUE)
                     /\ PdfEffectRuns(appended)
               /\ UNCHANGED toast
    /\ UNCHANGED <<assistantQueue, isDrainingAssistantQueue, drainLoops, shouldBypassTyping,
                   origin, received, rerenders, claimLog, callVars, composer, isLoading, agentCalls,
                   requests, importCalls, lastCall>>

\* a variant without the ceiling
NextPercentUncapped(currentPercent) == currentPercent + 3

\* Math.min(85, currentPercent + 3)
NextPercent(currentPercent) == Min(85, currentPercent + 3)

\* the callback of the progress interval, every 250 ms
ProgressTick(upload) ==
    /\ upload \in uploads
    /\ upload.interval
    /\ LET currentPercent == NextPercent(upload.currentPercent)
           updated == updateProgressMessage(messages, upload.progressId,
                                            buildProgressToolResult(currentPercent))
       IN /\ uploads' = (uploads \ {upload})
                            \cup {[upload EXCEPT !.currentPercent = currentPercent,
                                                 !.interval = currentPercent < 85]}
          /\ messages' = updated
          /\ Rendered(updated, View, TRUE)
          /\ PdfEffectRuns(updated)
    /\ UNCHANGED <<assistantQueue, isDrainingAssistantQueue, drainLoops, shouldBypassTyping,
                   nextId, origin, received, rerenders, claimLog, callVars, isImportDialogOpen,
                   selectedFile, uploadMessageGuards, imports, chatVars>>

\* the catch block and the finally block of the task
Caught(upload, text) ==
    /\ uploads' = (uploads \ {upload}) \cup {Cleared(upload, "caught")}
    /\ toast' = text
    /\ isLoading' = FALSE
    /\ Rendered(messages, View, FALSE)
    /\ UNCHANGED <<messages, assistantQueue, isDrainingAssistantQueue, drainLoops,
                   executedPdfMessageIds, shouldBypassTyping, nextId, origin, received,
                   rerenders, pdfOpened, claimLog, callVars, isImportDialogOpen, selectedFile,
                   uploadMessageGuards, imports, composer, error, agentCalls, requests,
                   importCalls, lastCall>>

\* readFileAsBase64 settles; when it resolves importReleves is called
FileRead(upload, readable) ==
    /\ upload \in uploads
    /\ upload.phase = "readFileAsBase64"
    /\ IF readable
       THEN /\ uploads' = (uploads \ {upload}) \cup {[upload EXCEPT !.phase = "importReleves"]}
            /\ importCalls' = Append(importCalls, [file |-> upload.file,
                                                   progressId |-> upload.progressId])
            /\ UNCHANGED <<messages, assistantQueue, isDrainingAssistantQueue, drainLoops,
                           executedPdfMessageIds, revealedMessageIds, typingCursor,
                           activeTypingMessageId, typing, shouldShowQuickReplies,
                           shouldBypassTyping, nextId, origin, received, rerenders,
                           pdfOpened, typingDone, claimLog, callVars, isImportDialogOpen, selectedFile,
                           uploadMessageGuards, imports, composer, isLoading, error, toast,
                           agentCalls, requests, lastCall>>
       ELSE Caught(upload, "Lecture fichier impossible")

\* importReleves rejects
ImportFails(upload, text) ==
    /\ upload \in uploads
    /\ upload.phase = "importReleves"
    /\ Caught(upload, text)

\* the progress directive of the finished import: 100 % and the label "Termine"
FinishedToolResult ==
    JObj([buildProgressToolResult(100).v EXCEPT !.step_label = JStr(<<"Termine">>)])

\* importReleves resolves: the task up to its return or its next await
ImportReturns(upload, result) ==
    /\ upload \in uploads
    /\ upload.phase = "importReleves"
    /\ IF isImportClarificationResult(result)
       THEN LET replaced == replaceProgressWithAssistantMessage(
                                messages, upload.progressId, Field(result, "message"), JNull)
            IN /\ uploads' = (uploads \ {upload})
                                \cup {[Cleared(upload, "clarification") EXCEPT !.result = result]}
               /\ messages' = replaced
               /\ Rendered(replaced, View, TRUE)
               /\ PdfEffectRuns(replaced)
               /\ toast' = "Choix du compte requis."
               /\ isLoading' = FALSE
               /\ UNCHANGED <<agentCalls, requests>>
       ELSE LET finished == updateProgressMessage(messages, upload.progressId,
                                                  FinishedToolResult)
                replaced == replaceProgressWithAssistantMessage(
                                finished, upload.progressId, SuccessContent, result)
                cleared == IF upload.messageId # NoId
                           THEN clearToolResult(replaced, upload.messageId)
                           ELSE replaced
            IN /\ uploads' = (uploads \ {upload})
                                \cup {[Cleared(upload, "followUp") EXCEPT !.result = result]}
               /\ messages' = cleared
               /\ Rendered(cleared, View, TRUE)
               /\ PdfEffectRuns(cleared)
               /\ toast' = "Import termine. Analyse automatique en cours"
               /\ isLoading' = TRUE
               /\ Sent(<<>>, "onConfirmImport", upload.progressId)
    /\ UNCHANGED <<assistantQueue, isDrainingAssistantQueue, drainLoops, shouldBypassTyping,
                   nextId, origin, received, rerenders, claimLog, callVars, isImportDialogOpen,
                   selectedFile, uploadMessageGuards, imports, composer, error, importCalls,
                   lastCall>>

\* the directives the chat handlers and the import flow react to
ChatDirectives ==
    {[toolResult |-> JNull, plan |-> JNull],
     [toolResult |-> QuickRepliesDirective, plan |-> JNull],
     [toolResult |-> ImportRequestDirective, plan |-> JNull]}

\* the conversation: the composer, the submit handlers and the answers
NextChat ==
    \/ \E text \in ComposerTexts : SetMessage(text)
    \/ HandleSubmit
    \/ \E option \in ShownOptions : SubmitQuickReply(option)
    \/ StartConversation
    \/ \E call \in requests, segments \in ReplySegments, directive \in ChatDirectives :
          RequestResolves(call, segments, directive.toolResult, directive.plan)
    \/ \E call \in requests, text \in FailureTexts : RequestFails(call, text)
    \/ DrainTimer
    \/ \E id \in Ids : TypingStep(id)

SpecChat == Init /\ [][NextChat]_vars

S_oui_raw == <<"O","u","i">>
S_non_raw == <<" ","N","O","N"," ">>
S_cross_raw == <<" ","U+274C"," ">>
S_maybe == <<"?">>

\* options whose label and value are not the usual pairs
OtherOptions ==
    <<JObj([id |-> JStr(S_yes), label |-> JStr(S_cross_raw), value |-> JStr(S_oui_raw)]),
      JObj([id |-> JStr(S_no), label |-> JStr(S_maybe), value |-> JStr(S_non_raw)]),
      JObj([id |-> JStr(S_maybe), label |-> JStr(S_check), value |-> JStr(S_yes)])>>

QuickDirectives ==
    {[toolResult |-> JNull, plan |-> JNull],
     [toolResult |-> QuickRepliesDirective, plan |-> JNull],
     [toolResult |-> JObj([quick_replies |-> JArr(OtherOptions)]), plan |-> JNull],
     [toolResult |-> JObj([type |-> JStr(S_ui_action), action |-> JStr(S_quick_reply_yes_no)]),
      plan |-> JNull]}

\* the conversation led with the quick-reply buttons alone
NextQuick ==
    \/ \E option \in ShownOptions : SubmitQuickReply(option)
    \/ StartConversation
    \/ \E call \in requests, segments \in ReplySegments, directive \in QuickDirectives :
          RequestResolves(call, segments, directive.toolResult, directive.plan)
    \/ DrainTimer
    \/ \E id \in Ids : TypingStep(id)

SpecQuick == Init /\ [][NextQuick]_vars

\* one upload from the first reply of the agent to the reply of the follow-up
ImportDirectives ==
    {[toolResult |-> JNull, plan |-> JNull],
     [toolResult |-> ImportRequestDirective, plan |-> JNull]}

NextImport ==
    \/ StartConversation
    \/ \E call \in requests, segments \in ReplySegments, directive \in ImportDirectives :
          RequestResolves(call, segments, directive.toolResult, directive.plan)
    \/ \E call \in requests, text \in FailureTexts : RequestFails(call, text)
    \/ DrainTimer
    \/ \E id \in Ids : TypingStep(id)
    \/ \E id \in Ids : OnImportNow(id)
    \/ \E file \in 1..Len(Files) : HandleFileChange(file)
    \/ imports < MaxImports /\ ConfirmImport
    \/ \E upload \in uploads : ProgressTick(upload)
    \/ \E upload \in uploads, readable \in BOOLEAN : FileRead(upload, readable)
    \/ \E upload \in uploads, text \in FailureTexts : ImportFails(upload, text)
    \/ \E upload \in uploads, result \in ImportResults : ImportReturns(upload, result)

SpecImport == Init /\ [][NextImport]_vars

\* the directives that ask for an import, with and without accepted types
PanelDirectives ==
    {[toolResult |-> ImportRequestDirective, plan |-> JNull],
     [toolResult |-> ImportPanelDirective, plan |-> JNull]}

\* the import dialog: the files picked and confirmed for the pending intent,
\* up to the call of importReleves
NextDialog ==
    \/ StartConversation
    \/ \E call \in requests, segments \in ReplySegments, directive \in PanelDirectives :
          RequestResolves(call, segments, directive.toolResult, directive.plan)
    \/ DrainTimer
    \/ \E id \in Ids : TypingStep(id)
    \/ \E id \in Ids : OnImportNow(id)
    \/ \E file \in 1..Len(Files) : HandleFileChange(file)
    \/ ConfirmImport
    \/ \E upload \in uploads, readable \in BOOLEAN : FileRead(upload, readable)

SpecDialog == Init /\ [][NextDialog]_vars

\* the import panel: two requests, the messages that ask for an import, and
\* one upload from the click on "Importer maintenant" to its result; the
\* reveal goes as far as it goes without its timers
NextPanel ==
    \/ SetMessage(S_padded)
    \/ HandleSubmit
    \/ StartConversation
    \/ \E call \in requests, segments \in ReplySegments, directive \in PanelDirectives :
          RequestResolves(call, segments, directive.toolResult, directive.plan)
    \/ DrainTimer
    \/ \E id \in Ids : ImportNowClicked(id)
    \/ \E file \in 1..Len(Files) : HandleFileChange(file)
    \/ imports < MaxImports /\ ConfirmImport
    \/ \E upload \in uploads : FileRead(upload, TRUE)
    \/ \E upload \in uploads, result \in ImportResults : ImportReturns(upload, result)

SpecPanel == Init /\ [][NextPanel]_vars

(***************************************************************************)
(* Properties of the submit handlers.                                      *)
(***************************************************************************)
\* what a submit handler that goes ahead would change
SubmitEffects == <<messages, assistantQueue, composer, agentCalls, requests, isLoading, error>>

\* C11: handleSubmit appends no user message, leaves the composer text, calls
\* the agent not at all and leaves the loading flag and the error as they are
\* when the loading flag is set, an import intent is pending or the text is
\* blank once trimmed; submitQuickReply does the same when the loading flag is
\* set or an import intent is pending.
C11_GuardedSubmitChangesNothing ==
    [][/\ (HandleSubmit /\ (isLoading \/ isImportRequired \/ Trim(composer) = <<>>))
             => UNCHANGED SubmitEffects
       /\ ((\E option \in ShownOptions : SubmitQuickReply(option))
             /\ (isLoading \/ isImportRequired))
             => UNCHANGED SubmitEffects]_vars

\* handleSubmit has run with a text to send while a request was pending, and
\* the text is still in the composer
C11_Witness ==
    /\ lastCall.handler = "handleSubmit"
    /\ lastCall.isLoading
    /\ ~lastCall.blank
    /\ ~lastCall.isImportRequired
    /\ Trim(composer) # <<>>
    /\ isLoading
    /\ requests # {}


\* the request call settles in this step without a reply: sendChatMessage rejected
Rejected(call) ==
    /\ call \in requests
    /\ call \notin requests'
    /\ received' = received

SubmitCallers == {"handleSubmit", "submitQuickReply", "startConversation"}
HasUserMessage(msgs, call) == \E i \in 1..Len(msgs) : msgs[i].id = UserMessageId(call)

\* C12: when the agent call of handleSubmit, startConversation or
\* submitQuickReply fails, the error becomes the failure text, no segment is
\* enqueued, no message is appended, the optimistic user message stays in the
\* list and the loading flag is false again.
C12_FailedRequestLeavesError ==
    [][\A call \in 1..Len(agentCalls) :
         (Rejected(call) /\ agentCalls[call].caller \in SubmitCallers)
            => /\ error' \in FailureTexts
               /\ assistantQueue' = assistantQueue
               /\ messages' = messages
               /\ ~isLoading'
               /\ agentCalls[call].caller # "startConversation"
                     => HasUserMessage(messages', call)]_vars

\* the request of handleSubmit has failed: its user message is the last of the list
C12_Witness ==
    /\ agentCalls # <<>>
    /\ agentCalls[Len(agentCalls)].caller = "handleSubmit"
    /\ requests = {}
    /\ error \in FailureTexts
    /\ ~isLoading
    /\ messages # <<>>
    /\ messages[Len(messages)].id = UserMessageId(Len(agentCalls))


(***************************************************************************)
(* Properties of the upload task.                                          *)
(***************************************************************************)
\* the calls of importReleves and the follow-up calls of sendChatMessage of an upload
ImportCallsOf(upload) ==
    Cardinality({i \in 1..Len(importCalls) : importCalls[i].progressId = upload.progressId})
FollowUpsOf(upload) ==
    Cardinality({i \in 1..Len(agentCalls) :
                    /\ agentCalls[i].caller = "onConfirmImport"
                    /\ agentCalls[i].upload = upload.progressId
                    /\ agentCalls[i].message = <<>>})

\* the backend answered { ok: false, type: 'error', message }
IsErrorResult(value) ==
    /\ value.k = "obj"
    /\ FieldOf(value, "ok") = [k |-> "bool", v |-> FALSE]
    /\ FieldOf(value, "type") = JStr(<<"error">>)

\* importReleves has answered the upload
HasResult(upload) == upload.result # JUndefined
\* the answer is an import result: neither a clarification nor an error
EndedInSuccess(upload) ==
    /\ HasResult(upload)
    /\ ~isImportClarificationResult(upload.result)
    /\ ~IsErrorResult(upload.result)

\* C13: a confirmed file causes one call of importReleves and never more; the
\* follow-up request with the empty message is issued once for an upload that
\* ended in success and never for one that ended in a clarification or an error.
C13_OneImportCallOneFollowUp ==
    \A upload \in uploads :
        /\ ImportCallsOf(upload) <= 1
        /\ (upload.phase = "importReleves" \/ HasResult(upload)) => ImportCallsOf(upload) = 1
        /\ FollowUpsOf(upload) = IF EndedInSuccess(upload) THEN 1 ELSE 0


\* the place of message id in msgs, 0 when it is not there
PositionIn(msgs, id) ==
    IF \E i \in 1..Len(msgs) : msgs[i].id = id
    THEN CHOOSE i \in 1..Len(msgs) : msgs[i].id = id
    ELSE 0

\* the replies that answer the follow-up requests of the upload
FollowUpReplies(upload) ==
    {agentCalls[i].reply : i \in {j \in 1..Len(agentCalls) :
                                     /\ agentCalls[j].caller = "onConfirmImport"
                                     /\ agentCalls[j].upload = upload.progressId
                                     /\ agentCalls[j].reply # 0}}

\* the order of the messages of one upload
UploadInOrder(msgs, upload) ==
    LET sent == PositionIn(msgs, UploadMessageId(upload.file))
        progress == PositionIn(msgs, upload.progressId)
    IN /\ sent # 0
       /\ progress # 0
       /\ sent < progress
       /\ msgs[sent].content = UploadContent
       /\ IF upload.phase = "followUp"
          THEN /\ msgs[progress].content = SuccessContent
               /\ msgs[progress].toolResult = JNull
          ELSE msgs[progress].content # SuccessContent
       /\ \A i \in 1..Len(msgs) :
             (msgs[i].id \in Ids /\ origin[msgs[i].id].reply \in FollowUpReplies(upload))
                => /\ upload.phase = "followUp"
                   /\ progress < i

\* C14: on the success path the messages of an upload come in this order: the
\* user message "Fichier envoye", the progress message, which is replaced in
\* place by the success text with its directive cleared, and the reply to the
\* follow-up request.  The success text never comes before the upload message
\* and the reply to the follow-up never before the success text.
C14_UploadMessagesInOrder ==
    [][\A upload \in uploads' :
          /\ UploadInOrder(messages, upload)'
          /\ (upload.phase = "followUp" /\ upload \notin uploads)
                => /\ Len(messages') = Len(messages)
                   /\ PositionIn(messages', upload.progressId)
                         = PositionIn(messages, upload.progressId)
                   /\ MessageOf(messages, upload.progressId).content = ProgressContent
                   /\ FollowUpReplies(upload) = {}]_vars

\* the reply to the follow-up request stands after the success text, which
\* stands after the upload message
C14_Witness ==
    \E upload \in uploads :
        /\ upload.phase = "followUp"
        /\ upload.result = ImportedResult
        /\ \E i \in 1..Len(messages) :
              /\ messages[i].id \in Ids
              /\ origin[messages[i].id].reply \in FollowUpReplies(upload)
              /\ PositionIn(messages, upload.progressId) < i
              /\ PositionIn(messages, UploadMessageId(upload.file))
                    < PositionIn(messages, upload.progressId)


\* the upload asked for a clarification in this step
Clarified(upload) ==
    /\ upload \in uploads'
    /\ upload \notin uploads
    /\ upload.phase = "clarification"

\* C15: when the import asks for a clarification the progress message is
\* replaced in place by the clarification text and loses its progress
\* directive, the success text is never shown for the upload and no follow-up
\* call is made for it, and the step leaves the import directive on the
\* message it came with, so that the import intent pending before is pending
\* after.
C15_ClarificationKeepsIntent ==
    [][\A upload \in uploads' :
          /\ Clarified(upload)
                => /\ Len(messages') = Len(messages)
                   /\ PositionIn(messages', upload.progressId)
                         = PositionIn(messages, upload.progressId)
                   /\ MessageOf(messages, upload.progressId).content = ProgressContent
                   /\ MessageOf(messages, upload.progressId).toolResult # JNull
                   /\ \A i \in 1..Len(messages) :
                         messages[i].id # upload.progressId => messages'[i] = messages[i]
                   /\ FollowUpsOf(upload) = 0
                   /\ findPendingImportIntent(messages') = findPendingImportIntent(messages)
                   /\ upload.messageId # NoId
                         => importIntent(MessageOf(messages', upload.messageId))
                               = importIntent(MessageOf(messages, upload.messageId))
          /\ upload.phase = "clarification"
                => /\ MessageOf(messages', upload.progressId).content
                         = Field(upload.result, "message")
                   /\ MessageOf(messages', upload.progressId).toolResult = JNull
                   /\ FollowUpsOf(upload) = 0]_vars

\* the clarification text stands where the progress message stood, it is
\* revealed, and the import requested by the first reply is still pending
C15_Witness ==
    \E upload \in uploads :
        /\ upload.phase = "clarification"
        /\ upload.messageId # NoId
        /\ MessageOf(messages, upload.progressId).content \in ClarificationContents
        /\ upload.progressId \in revealedMessageIds
        /\ findPendingImportIntent(messages).messageId = upload.messageId


\* the upload ended in a hard failure: the backend answered with an error
\* result, or the call of importReleves was rejected
HardFailure(upload) ==
    \/ HasResult(upload) /\ IsErrorResult(upload.result)
    \/ upload.phase = "caught" /\ ImportCallsOf(upload) = 1

\* C16: when an upload ends in a hard failure the progress message is
\* replaced by the error text, no follow-up request is sent to the agent and
\* the import flow is idle again.
C16_HardFailureShowsError ==
    \A upload \in uploads :
        HardFailure(upload)
           => /\ MessageOf(messages, upload.progressId).toolResult = JNull
              /\ MessageOf(messages, upload.progressId).content
                    \notin {ProgressContent, SuccessContent}
              /\ HasResult(upload)
                    => MessageOf(messages, upload.progressId).content
                          = Field(upload.result, "message")
              /\ FollowUpsOf(upload) = 0
              /\ ~upload.interval


\* the task of the upload has left its try block
Settled(upload) == upload.phase \in {"clarification", "followUp", "caught"}

\* C17: once an upload has settled its progress interval is cleared: no tick
\* updates the progress message any more, and the content and the directive
\* written at the settlement are not overwritten.
C17_NoTickAfterSettlement ==
    [][\A upload \in uploads :
          Settled(upload)
             => /\ ~upload.interval
                /\ upload \in uploads'
                /\ MessageOf(messages', upload.progressId).content
                      = MessageOf(messages, upload.progressId).content
                /\ MessageOf(messages', upload.progressId).toolResult
                      = MessageOf(messages, upload.progressId).toolResult]_vars

\* the interval was running when the import returned; the success text is
\* still in place after the reply to the follow-up has come
C17_Witness ==
    \E upload \in uploads :
        /\ upload.phase = "followUp"
        /\ upload.running
        /\ FollowUpReplies(upload) # {}
        /\ MessageOf(messages, upload.progressId).content = SuccessContent
        /\ MessageOf(messages, upload.progressId).toolResult = JNull


(***************************************************************************)
(* Properties of the import dialog.                                        *)
(***************************************************************************)
\* the directive of the pending intent lists csv alone, as the agent wrote
\* it or as onImportNow wrote it back
CsvOnly(toolResult) ==
    Field(toolResult, "accepted_types")
        \in {JArr(<<JStr(<<".","C","S","V">>)>>), JArr(<<JStr(S_csv)>>)}

\* r.csv is accepted by every intent of the model, x.PDF unless the pending
\* intent lists csv alone
IsAccepted(file, msgs) ==
    \/ file = 1
    \/ findPendingImportIntent(msgs) = NoIntent
    \/ ~CsvOnly(MessageOf(msgs, findPendingImportIntent(msgs).messageId).toolResult)

\* C18: a file whose extension is not among the accepted types of the pending
\* intent yields the local error "Format invalide" and nothing else:
\* importReleves is not called, no message is appended and the dialog stays
\* open; a file whose extension is accepted, whatever its case and with or
\* without a leading dot in the list, goes on to the upload.
C18_InvalidFormatStaysLocal ==
    [][ConfirmImport
          => IF IsAccepted(selectedFile, messages)
             THEN /\ \E upload \in uploads' \ uploads :
                        /\ upload.file = selectedFile
                        /\ upload.phase = "readFileAsBase64"
                  /\ Len(messages') > Len(messages)
                  /\ ~isImportDialogOpen'
             ELSE /\ toast' = "Format invalide"
                  /\ UNCHANGED <<messages, importCalls, uploads, isImportDialogOpen,
                                 selectedFile, uploadMessageGuards, agentCalls>>]_vars

\* x.PDF was refused for an intent that lists ".CSV" and the dialog is still
\* open with it, after r.csv went on to importReleves for the same intent
C18_Witness ==
    /\ toast = "Format invalide"
    /\ isImportDialogOpen
    /\ selectedFile = 2
    /\ CsvOnly(MessageOf(messages, findPendingImportIntent(messages).messageId).toolResult)
    /\ \E upload \in uploads : upload.file = 1 /\ ImportCallsOf(upload) = 1
    /\ \A upload \in uploads : upload.file # 2


\* the optimistic messages of the file in msgs
UploadMessagesOf(msgs, file) ==
    Cardinality({i \in 1..Len(msgs) : msgs[i].id = UploadMessageId(file)})

\* C19: the chat history holds at most one optimistic upload message for a
\* fingerprint (file name, size, lastModified): no two messages share the id
\* built from it, and confirming the same file again appends the progress
\* message alone.
C19_OneUploadMessagePerFile ==
    [][/\ \A file \in 1..Len(Files) : UploadMessagesOf(messages', file) <= 1
       /\ \A file \in uploadMessageGuards :
             (\E upload \in uploads' :
                  /\ upload.file = file
                  /\ \A earlier \in uploads : earlier.progressId # upload.progressId)
                => /\ Len(messages') = Len(messages) + 1
                   /\ messages'[Len(messages')].id # UploadMessageId(file)
                   /\ UploadMessagesOf(messages', file) = UploadMessagesOf(messages, file)]_vars

\* the same file was confirmed twice: two progress messages, one upload message
C19_Witness ==
    \E first \in uploads, second \in uploads :
        /\ first.progressId # second.progressId
        /\ first.file = second.file
        /\ PositionIn(messages, first.progressId) # 0
        /\ PositionIn(messages, second.progressId) # 0
        /\ UploadMessagesOf(messages, first.file) = 1


\* the upload went through its success branch after a click on "import now"
SucceededAfterClick(upload) == upload.phase = "followUp" /\ upload.clicked # NoId

\* C20: when the user clicks "import now" on a message that carries an import
\* directive and the import then succeeds, the directive that is cleared is
\* the one of the clicked message, so that this message offers "import now"
\* no longer.
C20_ClickedDirectiveCleared ==
    \A upload \in uploads :
        SucceededAfterClick(upload)
           => /\ upload.messageId = upload.clicked
              /\ importIntent(MessageOf(messages, upload.clicked)) = NoIntent

\* the import succeeded after a click on the newest message with a directive:
\* that message has lost its directive
C20_Witness ==
    \E upload \in uploads :
        /\ SucceededAfterClick(upload)
        /\ upload.messageId = upload.clicked
        /\ importIntent(MessageOf(messages, upload.clicked)) = NoIntent
        /\ \E i \in 1..Len(messages) :
              messages[i].id # upload.clicked /\ importIntent(messages[i]) # NoIntent


(***************************************************************************)
(* Properties of the directive parsers.                                    *)
(***************************************************************************)
\* the parsers that returned a directive for the value
Variants ==
    {name \in {"openImportPanel", "legacyImport", "pdf", "quickReply"} : classified[name] # JNull}

\* C21: no raw value is classified as more than one directive: at most one of
\* toOpenImportPanelUiAction, toLegacyImportUiRequest, toPdfUiRequest and
\* toQuickReplyYesNoUiAction returns a directive for it.
C21_AtMostOneVariant == Cardinality(Variants) <= 1

\* a value for which exactly one parser answers
C21_Witness ==
    /\ Variants = {"openImportPanel"}
    /\ Field(classified.value, "url") = JStr(S_url)
    /\ Field(classified.value, "name") = JStr(S_open_pdf_report)
    /\ Field(classified.value, "quick_replies") = JUndefined


\* the import directive the parsers built from the value, JNull if none
ImportDirective ==
    IF classified.openImportPanel # JNull THEN classified.openImportPanel
    ELSE classified.legacyImport

\* what the accepted_types of the raw values are to become
ExpectedAcceptedTypes(raw) ==
    CASE raw = JArr(<<JStr(S_pdf)>>) -> <<S_pdf>>
      [] raw = TypesCsvRaw -> <<S_csv>>
      [] raw = Field(ImportRequestDirective, "accepted_types") -> <<S_csv>>
      [] raw = TypesPdfCsv -> <<S_pdf, S_csv>>
      [] raw = TypesTwoDots -> <<S_dot_ofx>>
      [] OTHER -> <<S_csv, S_pdf>>

\* C22: for a value classified as an import directive of either kind the
\* accepted_types returned is a non-empty list of non-empty strings: the
\* string entries of the input trimmed, stripped of one leading dot and
\* lower-cased, the empty ones dropped, and <<csv, pdf>> when accepted_types
\* is missing, is no array or normalizes to nothing.
C22_AcceptedTypesNormalized ==
    ImportDirective # JNull
       => LET types == Strings(Field(ImportDirective, "accepted_types"))
              raw == Field(classified.value, "accepted_types")
          IN /\ Len(types) >= 1
             /\ \A i \in 1..Len(types) : types[i] # <<>>
             /\ types = ExpectedAcceptedTypes(raw)
             /\ (raw.k # "arr" \/ raw \in {JArr(<<>>), TypesNothing}) => types = <<S_csv, S_pdf>>

\* [' .CSV ', 1, ' . '] on an open_import_panel action has become ['csv']
C22_Witness ==
    /\ classified.openImportPanel # JNull
    /\ Field(classified.value, "accepted_types") = TypesCsvRaw
    /\ Field(classified.openImportPanel, "accepted_types") = JArr(<<JStr(S_csv)>>)

\* the value is a ui_request named import_file
IsImportFileRequest(value) ==
    /\ value.k = "obj"
    /\ Field(value, "type") = JStr(S_ui_request)
    /\ Field(value, "name") = JStr(S_import_file)

\* an assistant message that carries the value
Carrier(value) ==
    [id |-> 1, role |-> "assistant", content |-> [text |-> "reply", length |-> ShortLength],
     toolResult |-> value, plan |-> JNull, debugPayload |-> JNull]

\* C23: a ui_request named import_file is classified as a legacy import
\* request with or without a bank_account_id: a missing, non-string or blank
\* id gives bank_account_id undefined, a string gives it trimmed; and an
\* assistant message that carries the value yields a pending import intent.
C23_LegacyImportWithoutAccountId ==
    IsImportFileRequest(classified.value)
       => LET id == Field(classified.value, "bank_account_id") IN
          /\ classified.legacyImport # JNull
          /\ Field(classified.legacyImport, "bank_account_id")
                = (IF id \in {JStr(S_acc), JStr(S_acc_padded)} THEN JStr(S_acc) ELSE JUndefined)
          /\ findPendingImportIntent(<<Carrier(classified.value)>>).messageId = 1
          /\ findPendingImportIntent(<<Carrier(classified.value)>>).source = "ui_request"

\* an import_file request without any bank_account_id was classified
C23_Witness ==
    /\ IsImportFileRequest(classified.value)
    /\ Field(classified.value, "bank_account_id") = JUndefined
    /\ classified.legacyImport # JNull
    /\ Field(classified.legacyImport, "bank_account_id") = JUndefined


(***************************************************************************)
(* Properties of the quick replies.                                        *)
(***************************************************************************)
\* submitQuickReply has gone ahead in this step
QuickReplySent ==
    /\ lastCall'.handler = "submitQuickReply"
    /\ Len(agentCalls') = Len(agentCalls) + 1

YesOption == YesNoOptions[1]

\* C24: choosing a quick-reply option sends 'oui' or 'non' to the agent and
\* nothing else, 'non' exactly when the trimmed, lower-cased value of the
\* option is 'non'; the user message appended shows the one emoji (check
\* mark or cross mark), never the text sent; and the check-mark button of the
\* usual pair sends 'oui'.
C24_QuickReplySendsOuiOrNon ==
    [][QuickReplySent
          => LET option == lastCall'.option
                 sent == agentCalls'[Len(agentCalls')].message
                 shown == messages'[Len(messages')]
             IN /\ sent \in {S_oui, S_non}
                /\ sent = S_non <=> ToLowerCase(Trim(Field(option, "value").v)) = S_non
                /\ Len(messages') = Len(messages) + 1
                /\ shown.role = "user"
                /\ shown.content.text \in {S_check[1], S_cross[1]}
                /\ shown.content.length = 1
                /\ shown.content.text = S_check[1] => sent = S_oui
                /\ option = YesOption => sent = S_oui /\ shown.content.text = S_check[1]]_vars

\* the option labelled with a check mark whose value is 'yes' was chosen:
\* 'oui' was sent and the check mark is shown
C24_Witness ==
    /\ lastCall.handler = "submitQuickReply"
    /\ lastCall.option = OtherOptions[3]
    /\ agentCalls # <<>>
    /\ agentCalls[Len(agentCalls)].caller = "submitQuickReply"
    /\ agentCalls[Len(agentCalls)].message = S_oui
    /\ messages[Len(messages)].content.text = S_check[1]


(***************************************************************************)
(* Properties of resetSession and logoutWithSessionReset.                  *)
(***************************************************************************)
\* the calls of resetSession that called fetch
ResetRequests(calls) == {call \in 1..Len(calls) : calls[call].sent}

\* C25: whatever the sequence or interleaving of resetSession calls, fetch is
\* called for /agent/reset-session at most once: the call that finds the flag
\* unset sets it before its first await, the flag is never unset again,
\* whatever becomes of the first request, and every call that finds it set
\* returns at once and never sends anything.
C25_AtMostOneResetRequest ==
    [][/\ Cardinality(ResetRequests(resetCalls')) <= 1
       /\ sessionResetRequested => sessionResetRequested'
       /\ Len(resetCalls') = Len(resetCalls) + 1
             => LET call == resetCalls'[Len(resetCalls')] IN
                /\ sessionResetRequested'
                /\ ~call.sent
                /\ call.phase = (IF sessionResetRequested THEN "returned"
                                 ELSE "buildAuthHeaders")
       /\ \A call \in 1..Len(resetCalls) :
             resetCalls[call].phase = "returned" => resetCalls'[call] = resetCalls[call]]_vars

\* the first request failed, and the two later calls returned without a request
C25_Witness ==
    /\ Len(resetCalls) = 3
    /\ resetCalls[1].sent
    /\ resetCalls[1].outcome = "not ok"
    /\ resetCalls[2].phase = "returned"
    /\ resetCalls[3].phase = "returned"
    /\ resetCalls[3].caller = "handleLogout"

\* how often the event stands in the log
Count(log, event) == Cardinality({i \in 1..Len(log) : log[i] = event})

\* the log of every run of logoutWithSessionReset is in order
LogoutInOrder ==
    \A run \in 1..Len(logouts) :
        LET logout == logouts[run]
            log == logout.log
        IN /\ log[1] = "resetSession"
           /\ Count(log, "resetSession") = 1
           /\ Count(log, "signOut") = (IF logout.phase = "resetSession" THEN 0 ELSE 1)
           /\ logout.phase # "resetSession"
                 => /\ log[2] = (IF logout.dependency = "rejects" THEN "reset rejected"
                                 ELSE "reset resolved")
                    /\ log[3] = "signOut"
                    /\ logout.dependency = "resetSession"
                          => resetCalls[logout.reset].phase \in {"returned", "settled"}
           /\ Count(log, "onLogoutError")
                 = (IF logout.phase = "done" /\ log[4] \in {"error", "throws"} THEN 1 ELSE 0)
           /\ logout.phase = "done" /\ log[4] \in {"error", "throws"}
                 => log[5] = "onLogoutError"
           /\ run = Len(logouts) /\ Count(log, "onLogoutError") = 1 => error = LogoutErrorText

\* resetSession rejected, signOut was called once and returned an error, and
\* onLogoutError was called; another logout waited for the request to settle
C26_Witness ==
    \E run \in 1..Len(logouts), other \in 1..Len(logouts) :
        /\ logouts[run].log = <<"resetSession", "reset rejected", "signOut", "error",
                                "onLogoutError">>
        /\ logouts[other].dependency = "resetSession"
        /\ logouts[other].phase = "done"
        /\ resetCalls[logouts[other].reset].sent

\* once the resetSession of a logout has settled, signOut is called
SignOutFollows ==
    \A run \in 1..MaxLogouts :
        (Len(logouts) >= run /\ ResetSettled(logouts[run]))
           ~> (Len(logouts) >= run /\ Count(logouts[run].log, "signOut") = 1)

\* C26: logoutWithSessionReset calls resetSession first and signOut only
\* when resetSession has settled, resolved or rejected; it calls signOut at
\* most once, and once resetSession has settled it does call it, also when
\* resetSession rejected; and onLogoutError is called exactly when signOut
\* throws or returns an error.
C26_ResetThenSignOutOnce == []LogoutInOrder /\ SignOutFollows


(***************************************************************************)
(* Properties of the scrolling.                                            *)
(***************************************************************************)
\* how far the list is from its bottom
Distance(element) == element.scrollHeight - element.scrollTop - ClientHeight

\* C27: on a new message or a report of typing progress the list is scrolled
\* to the bottom only while the auto-scroll flag is set, and then it is; the
\* flag is cleared by a scroll event that leaves the list 48px or more from
\* the bottom and by nothing else, and it is set again only by a scroll event
\* that leaves it less than 48px from the bottom.
C27_AutoScrollOnlyWhileFlagSet ==
    [][/\ scrolledBy' \in {"effect", "onTypingProgress"}
             => /\ shouldAutoScroll' = shouldAutoScroll
                /\ shouldAutoScroll => Distance(messagesElement') = 0
                /\ ~shouldAutoScroll
                      => \/ messagesElement'.scrollTop = messagesElement.scrollTop
                         \/ /\ messagesElement'.scrollTop < messagesElement.scrollTop
                            /\ messagesElement'.scrollHeight < messagesElement.scrollHeight
       /\ (shouldAutoScroll /\ ~shouldAutoScroll')
             => scrolledBy' = "onScroll" /\ Distance(messagesElement') >= 48
       /\ (~shouldAutoScroll /\ shouldAutoScroll')
             => scrolledBy' = "onScroll" /\ Distance(messagesElement') < 48
       /\ scrolledBy' = "onScroll"
             => shouldAutoScroll' = (Distance(messagesElement') < 48)]_vars

\* the user has scrolled 48px away from the bottom, and a new message has
\* made the list longer without moving it
C27_Witness ==
    /\ ~shouldAutoScroll
    /\ scrolledBy = "effect"
    /\ messagesElement.scrollHeight = ClientHeight + 2 * Threshold
    /\ messagesElement.scrollTop = 0
    /\ Distance(messagesElement) = 96


(***************************************************************************)
(* Properties of the message list.                                         *)
(***************************************************************************)
\* the message differs from before in content, directive or debug payload at most
ChangedInPlace(before, after) ==
    after = [before EXCEPT !.content = after.content, !.toolResult = after.toolResult,
                           !.debugPayload = after.debugPayload]

\* C28: every update of the message list appends messages at its end or
\* changes the content, the directive or the debug payload of an assistant
\* message where it stands: no message is removed or moved, none changes its
\* id or its role, and a user message is never changed.  (The full reset of
\* the conversation, which reloads the page, is not among the steps.)
C28_AppendOrChangeInPlace ==
    [][/\ Len(messages') >= Len(messages)
       /\ \A i \in 1..Len(messages) :
             /\ messages'[i].id = messages[i].id
             /\ messages'[i].role = messages[i].role
             /\ ChangedInPlace(messages[i], messages'[i])
             /\ messages[i].role = "user" => messages'[i] = messages[i]]_vars

\* a user message, the upload message and the replies stand where they stood
\* while the progress message has become the success text, the directive of
\* one message was cleared and the directive of the clicked one was rewritten
C28_Witness ==
    \E upload \in uploads :
        /\ upload.phase = "followUp"
        /\ upload.clicked # NoId
        /\ upload.clicked # upload.messageId
        /\ MessageOf(messages, upload.progressId).content = SuccessContent
        /\ MessageOf(messages, upload.messageId).toolResult = JNull
        /\ PositionIn(messages, upload.messageId) < PositionIn(messages, upload.progressId)
        /\ \E i \in 1..Len(messages) :
              /\ messages[i].role = "user"
              /\ messages[i].id = UserMessageId(2)
              /\ i < PositionIn(messages, upload.clicked)

(***************************************************************************)
(* Properties of splitAssistantReply.                                      *)
(***************************************************************************)
IsNotWhitespace(c) == ~IsWhitespace(c)
WithoutWhitespace(s) == SelectSeq(s, IsNotWhitespace)

\* the chunk is cut into sentences and repacked
IsSentenceSplit(chunk) ==
    /\ Len(chunk) > SplitThreshold
    /\ ~LINK_LINE_REGEX(chunk)
    /\ Len(CompactSentences(chunk)) > 1

\* C29: splitAssistantReply is deterministic and loses no content: the
\* produced segments joined, the white space set aside, are the trimmed
\* non-empty blank-line-separated chunks of the reply joined, the white space
\* set aside, and no produced segment is empty.
C29_SplitLosesNoContent ==
    /\ replySegments = splitAssistantReply(replyText)
    /\ WithoutWhitespace(Concat(replySegments)) = WithoutWhitespace(Concat(Chunks(replyText)))
    /\ \A k \in 1..Len(replySegments) : replySegments[k] # <<>>

\* the reply is one chunk that was cut into sentences and repacked into more
\* than one segment, and in the chunk an ellipsis ends a sentence
C29_Witness ==
    /\ Len(Chunks(replyText)) = 1
    /\ IsSentenceSplit(Chunks(replyText)[1])
    /\ Len(replySegments) > 1
    /\ \E i \in 2..(Len(replyText) - 3) :
          /\ ~IsTerminator(replyText[i - 1]) /\ ~IsWhitespace(replyText[i - 1])
          /\ \A k \in i..(i + 2) : replyText[k] = "."

\* C30: every segment produced by sentence-splitting a chunk longer than
\* 350 characters has at most 350 characters, and a chunk of at most 350
\* characters is emitted unchanged as one segment.
C30_SegmentsWithinThreshold ==
    LET chunks == Chunks(replyText) IN
    /\ replySegments = Concat([k \in 1..Len(chunks) |-> SplitChunk(chunks[k])])
    /\ \A k \in 1..Len(chunks) :
          /\ Len(chunks[k]) <= SplitThreshold => SplitChunk(chunks[k]) = <<chunks[k]>>
          /\ IsSentenceSplit(chunks[k]) =>
                \A j \in 1..Len(SplitChunk(chunks[k])) :
                    Len(SplitChunk(chunks[k])[j]) <= SplitThreshold

\* a chunk was cut into sentences of which one alone is over the threshold,
\* next to a chunk under the threshold
C30_Witness ==
    /\ \E k \in 1..Len(Chunks(replyText)) : Len(Chunks(replyText)[k]) <= SplitThreshold
    /\ \E k \in 1..Len(Chunks(replyText)) :
          /\ IsSentenceSplit(Chunks(replyText)[k])
          /\ \E j \in 1..Len(CompactSentences(Chunks(replyText)[k])) :
                Len(CompactSentences(Chunks(replyText)[k])[j]) > SplitThreshold


\* linksRegex of renderMessageContent, first alternative: [label](href)
ContainsMarkdownLink(s) ==
    \E i \in {n \in 1..Len(s) : s[n] = "["} :
        \E j \in {n \in (i + 2)..(Len(s) - 3) : s[n] = "]"} :
            /\ \A n \in (i + 1)..(j - 1) : s[n] # "]"
            /\ s[j + 1] = "("
            /\ \E k \in {n \in (j + 3)..Len(s) : s[n] = ")"} :
                  \A n \in (j + 2)..(k - 1) : s[n] # ")"

\* linksRegex of renderMessageContent, second alternative: https?:\/\/[^\s]+
ContainsRawUrl(s) ==
    \E pattern \in {S_http, S_https} :
        \E i \in 1..(Len(s) - Len(pattern)) :
            /\ SubSeq(s, i, i + Len(pattern) - 1) = pattern
            /\ ~IsWhitespace(s[i + Len(pattern)])

ContainsLink(s) == ContainsMarkdownLink(s) \/ ContainsRawUrl(s)

\* C31: a chunk that contains a link marker, the opening of a markdown link
\* or an http(s) URL, is emitted as one segment whatever its length, so that
\* no link that the message renders is cut by the split.
C31_LinkChunkIsOneSegment ==
    \A k \in 1..Len(Chunks(replyText)) :
        LINK_LINE_REGEX(Chunks(replyText)[k]) \/ ContainsLink(Chunks(replyText)[k])
            => SplitChunk(Chunks(replyText)[k]) = <<Chunks(replyText)[k]>>

\* a chunk over the threshold holds a markdown link whose label is not the
\* one LINK_LINE_REGEX names, and has more than one sentence
C31_Witness ==
    \E k \in 1..Len(Chunks(replyText)) :
        /\ ContainsMarkdownLink(Chunks(replyText)[k])
        /\ ~LINK_LINE_REGEX(Chunks(replyText)[k])
        /\ Len(Chunks(replyText)[k]) > SplitThreshold
        /\ Len(CompactSentences(Chunks(replyText)[k])) > 1

\* the part of C31 that LINK_LINE_REGEX decides
C31_MarkedChunkIsOneSegment ==
    \A k \in 1..Len(Chunks(replyText)) :
        LINK_LINE_REGEX(Chunks(replyText)[k])
            => SplitChunk(Chunks(replyText)[k]) = <<Chunks(replyText)[k]>>


(***************************************************************************)
(* Properties of the progress simulation.                                  *)
(***************************************************************************)
\* importReleves has not settled for the upload
InFlight(upload) == upload.phase \in {"readFileAsBase64", "importReleves"}

\* the percent that the message shows, -1 when it carries no progress directive
ShownPercent(msgs, id) ==
    LET toolResult == MessageOf(msgs, id).toolResult IN
    IF toolResult.k = "obj" /\ Field(toolResult, "action") = JStr(S_progress)
    THEN Field(toolResult, "percent").v
    ELSE -1

\* C32: while an upload is in flight its progress message shows a percent
\* that starts at 5, is left alone or raised by 3, to 85 at most, from one
\* state to the next, and never exceeds 85; no message shows more than 85,
\* and so not 100, before importReleves has returned.
C32_ProgressPercent ==
    [][/\ \A upload \in uploads' :
             /\ InFlight(upload) =>
                   /\ ShownPercent(messages', upload.progressId) >= 5
                   /\ ShownPercent(messages', upload.progressId) <= 85
             /\ upload.progressId \notin {before.progressId : before \in uploads}
                   => ShownPercent(messages', upload.progressId) = 5
       /\ \A i \in 1..Len(messages') :
             ShownPercent(messages', messages'[i].id) > 85 =>
                \E upload \in uploads' :
                    /\ upload.progressId = messages'[i].id
                    /\ ~InFlight(upload)
                    /\ upload.result # JUndefined
       /\ \A before \in uploads, after \in uploads' :
             before.progressId = after.progressId /\ InFlight(before) /\ InFlight(after) =>
                LET percent == ShownPercent(messages, before.progressId) IN
                ShownPercent(messages', after.progressId)
                    \in {percent, IF percent + 3 > 85 THEN 85 ELSE percent + 3}]_vars

\* importReleves is pending and the progress message has reached 85, where
\* the interval has stopped
C32_Witness ==
    \E upload \in uploads :
        /\ upload.phase = "importReleves"
        /\ ~upload.interval
        /\ ShownPercent(messages, upload.progressId) = 85


(***************************************************************************)
(* Properties of the timers of TypingText.                                 *)
(***************************************************************************)
\* the run of the reveal effect that set the timer has been cleaned up
IsStale(timer) == ~effectRuns[timer.run].active

\* what a tick of the reveal may change
RevealEffects ==
    <<typingText.instance, typingText.revealed, typingText.done, typingText.progress,
      effectRuns>>

\* C33: once a run of the reveal effect is cleaned up, on unmount or because
\* the effect runs again, the timer its timerId names is cleared, and a timer
\* of that run that is still pending changes neither the visible length nor
\* the revealed set, fires no callback and sets no timer when it fires.
C33_StaleTimerChangesNothing ==
    [][/\ \A r \in 1..Len(effectRuns') :
             ~effectRuns'[r].active
                => [run |-> r, id |-> effectRuns'[r].timerId] \notin pendingTimers'
       /\ \A timer \in pendingTimers :
             (IsStale(timer) /\ \E invocations \in 1..2, due \in BOOLEAN :
                                   TimerFires(timer, invocations, due))
                => /\ UNCHANGED RevealEffects
                   /\ pendingTimers' = pendingTimers \ {timer}]_vars

\* a timer of a run that was cleaned up has fired, after the reveal had gone
\* on under a later run
C33_Witness ==
    /\ typingText.lastStep = "no-op"
    /\ typingText.instance.mounted
    /\ typingText.instance.visibleLength > 0
    /\ Len(effectRuns) > 1
    /\ \E r \in 1..Len(effectRuns) : effectRuns[r].active


(***************************************************************************)
(* Properties of the directive of a reply.                                 *)
(***************************************************************************)
\* the messages of the list that come from the reply and carry its directive
CarriersOf(reply) ==
    {i \in 1..Len(messages) :
        /\ origin[messages[i].id].reply = reply
        /\ messages[i].toolResult = received[reply].toolResult}

HasDirective(reply) == reply <= Len(received) /\ received[reply].toolResult # JNull

\* C34: for every reply that carries a directive, whatever its segments,
\* none included, the list eventually holds exactly one message that comes
\* from the reply and carries the directive.
C34_DirectiveEventuallyAppended ==
    \A reply \in 1..MaxReplies :
        HasDirective(reply) ~> (HasDirective(reply) /\ Cardinality(CarriersOf(reply)) = 1)

\* a reply with a directive and without a segment was received, and the queue
\* is drained
C34_Witness ==
    \E reply \in 1..Len(received) :
        /\ HasDirective(reply)
        /\ \A id \in Ids : origin[id].reply # reply
        /\ assistantQueue = <<>>
        /\ ~isDrainingAssistantQueue

\* the part of C34 for the replies with a segment
C34_DirectiveOfSegmentsAppended ==
    \A reply \in 1..MaxReplies :
        (HasDirective(reply) /\ \E id \in Ids : origin[id].reply = reply)
            ~> (HasDirective(reply) /\ Cardinality(CarriersOf(reply)) = 1)


(***************************************************************************)
(* Properties of the calls in flight.                                      *)
(***************************************************************************)
\* C35: at most one call of sendChatMessage, from handleSubmit,
\* startConversation, submitQuickReply or the follow-up of an import, is
\* pending at any time, and the loading flag is set whenever one is pending.
C35_OneRequestAndLoading ==
    /\ Cardinality(requests) <= 1
    /\ requests # {} => isLoading

\* a call of sendChatMessage is pending while the task of an upload runs
C35_Witness ==
    /\ requests # {}
    /\ \E upload \in uploads : upload.phase \in {"readFileAsBase64", "importReleves"}

\* the part of C35 for the conversation without an import
C35_OneChatRequestAndLoading ==
    /\ Cardinality(requests) <= 1
    /\ requests # {} => isLoading
    /\ uploads = {}


\* C36: at most one upload, a call of importReleves with its progress
\* message, is in flight at any time: no second file is confirmed while the
\* first is uploading.
C36_OneUploadInFlight ==
    Cardinality({upload \in uploads : InFlight(upload)}) <= 1

\* two files were confirmed for the same directive and both calls of
\* importReleves are pending, each with its progress message
C36_Witness ==
    \E first \in uploads, second \in uploads :
        /\ first.progressId < second.progressId
        /\ first.phase = "importReleves"
        /\ second.phase = "importReleves"
        /\ first.messageId = second.messageId
        /\ ShownPercent(messages, first.progressId) >= 5
        /\ ShownPercent(messages, second.progressId) >= 5


(***************************************************************************)
(* Properties of the order of the reveal.                                  *)
(***************************************************************************)
\* the active message is the oldest assistant message not yet revealed
ActiveIsFirstUnrevealed ==
    activeTypingMessageId = FirstUnrevealed(messages, revealedMessageIds)

\* C37: with timers that keep firing, every assistant message of the list is
\* eventually in the revealed set and rendered; after every completed reveal
\* the active message is the next assistant message not yet revealed.
C37_EveryMessageRevealed ==
    /\ []ActiveIsFirstUnrevealed
    /\ \A id \in Ids :
          (id \in AssistantIds(messages))
             ~> (/\ id \in revealedMessageIds
                 /\ IsRendered(messages, id, revealedMessageIds, activeTypingMessageId))

\* the segments of two replies were revealed one after the other by their
\* timers, and no message is left to reveal
C37_Witness ==
    /\ ~shouldBypassTyping
    /\ Len(messages) >= 3
    /\ Len(received) = 2
    /\ AssistantIds(messages) \subseteq revealedMessageIds
    /\ typingCursor = Len(messages)
    /\ activeTypingMessageId = NoId
    /\ assistantQueue = <<>>


\* the positions of the assistant messages in the list
AssistantPositions == {i \in 1..Len(messages) : messages[i].role = "assistant"}

\* C38: the revealed assistant messages are a prefix of the assistant
\* messages in the order of the list: none is revealed while an earlier one
\* is not.
C38_RevealedIsPrefix ==
    \A i \in AssistantPositions, j \in AssistantPositions :
        i < j /\ messages[j].id \in revealedMessageIds => messages[i].id \in revealedMessageIds

\* two assistant messages are revealed, a third one is half revealed and a
\* fourth one waits behind it
C38_Witness ==
    \E i \in AssistantPositions, j \in AssistantPositions :
        /\ i < j
        /\ Cardinality({k \in AssistantPositions : k < i}) = 2
        /\ messages[i].id \notin revealedMessageIds
        /\ messages[j].id \notin revealedMessageIds
        /\ typing[messages[i].id].visibleLength > 0
        /\ \A k \in AssistantPositions : k < i => messages[k].id \in revealedMessageIds

\* the runs of handleLogout that have called signOut
SignOutCalled ==
    {run \in 1..Len(logouts) : /\ logouts[run].dependency = "resetSession"
                               /\ logouts[run].phase \in {"signOut", "done"}}

\* C39: every logout sends a reset-session request before it calls signOut,
\* whatever happened before on the page, a reset on pagehide or on
\* visibilitychange included: when signOut has been called, the resetSession
\* call of that logout has called fetch (or could not build its headers).
C39_LogoutSendsResetRequest ==
    \A run \in SignOutCalled :
        LET call == resetCalls[logouts[run].reset] IN
        call.sent \/ call.outcome = "caught"

\* the page was hidden and its reset request was answered; the logout that
\* follows calls signOut and its own resetSession call has sent nothing
C39_Witness ==
    \E run \in SignOutCalled :
        /\ logouts[run].reset = 2
        /\ resetCalls[1].caller \in {"pagehide", "visibilitychange"}
        /\ resetCalls[1].outcome = "ok"
        /\ resetCalls[2].phase = "returned"
        /\ ~resetCalls[2].sent
        /\ Cardinality(ResetRequests(resetCalls)) = 1

\* what does hold: when signOut is called, some call of resetSession on this
\* page has set the flag, and the one of the logout has settled
C39_ResetRequestedBeforeSignOut ==
    \A run \in SignOutCalled :
        /\ sessionResetRequested
        /\ resetCalls[logouts[run].reset].phase \in {"returned", "settled"}

\* C40: for every quick-reply option the emoji of the user message and the
\* text sent to the agent agree: the cross mark is shown exactly when 'non'
\* is sent and the check mark exactly when 'oui' is sent.
C40_EmojiAgreesWithTextSent ==
    [][QuickReplySent
          => LET sent == agentCalls'[Len(agentCalls')].message
                 shown == messages'[Len(messages')].content.text
             IN /\ shown = S_cross[1] <=> sent = S_non
                /\ shown = S_check[1] <=> sent = S_oui]_vars

\* the option labelled with a cross mark whose value is 'Oui' was chosen:
\* the user message shows the cross mark and 'oui' was sent
C40_Witness ==
    /\ lastCall.handler = "submitQuickReply"
    /\ lastCall.option = OtherOptions[1]
    /\ agentCalls # <<>>
    /\ agentCalls[Len(agentCalls)].caller = "submitQuickReply"
    /\ agentCalls[Len(agentCalls)].message = S_oui
    /\ messages[Len(messages)].role = "user"
    /\ messages[Len(messages)].content.text = S_cross[1]

\* what does hold: 'non' is never sent under a check mark, and the two agree
\* for every option whose trimmed label is not the cross mark
C40_AgreeUnlessLabelledWithCross ==
    [][QuickReplySent
          => LET option == lastCall'.option
                 sent == agentCalls'[Len(agentCalls')].message
                 shown == messages'[Len(messages')].content.text
             IN /\ sent = S_non => shown = S_cross[1]
                /\ Trim(Field(option, "label").v) # S_cross
                      => /\ shown = S_cross[1] <=> sent = S_non
                         /\ shown = S_check[1] <=> sent = S_oui]_vars

====
